---- MODULE Spec2Model ----
(***************************************************************************)
(* Model Element Resolution & Caching Engine of SYSMODwithSysMLv2.         *)
(*                                                                         *)
(* Two helper modules implement the engine:                                *)
(*   "mbse4u" : src/mbse4u-sysmlv2/mbse4u_sysmlv2_api_helpers.py           *)
(*              (used by src/sysmod-viewer), get_element_fromAPI is        *)
(*              wrapped in functools.lru_cache and re-raises exceptions;   *)
(*   "api"    : src/api/sysmod_api_helpers.py (used by src/api), no        *)
(*              lru_cache on get_element_fromAPI, exceptions are printed   *)
(*              and swallowed.                                             *)
(* A process runs one of them; the variable module says which.             *)
(*                                                                         *)
(* Python values: None is the record None, a dict (element) is a record,   *)
(* a list is a sequence, ELEMENT_CACHE is a function from the contexts it  *)
(* holds to functions from the ids held to elements.                       *)
(***************************************************************************)
EXTENDS Integers, Sequences, FiniteSets, TLC

VARIABLES
    module,          \* which helper module the process runs
    ELEMENT_CACHE,   \* the global dict: commit url -> (element id -> element)
    lru,             \* memo of @lru_cache on get_element_fromAPI (mbse4u)
    last,            \* the last finished call: operation, arguments, outcome
    resolved,        \* history: the (context, id) pairs a get_element_fromAPI call of the caller has returned an element for
    failed,          \* history: the (context, id) pairs whose latest get_element_fromAPI call of the caller asked the remote and got no element
    kind_lru,        \* memo of @lru_cache on get_elements_byKind_fromAPI (api)
    remote,          \* the elements of the commit on the server: element id -> element
    hier,            \* the running call of check_specialization_hierarchy: its frames, its visited set, its result
    threads,         \* the get_element_fromAPI calls of the request threads of the server: where each is
    SYSMOD_CACHE     \* the global dict of the viewer's server: key -> the value an endpoint computed

vars == <<module, ELEMENT_CACHE, lru, last, resolved, failed, kind_lru, remote, hier, threads, SYSMOD_CACHE>>

----------------------------------------------------------------------------
(* Bounds of the model *)

\* longest list body of a response (bulk listing, list-shaped single fetch)
MaxBatch == 2
\* threads that can run get_element_fromAPI at the same time
MaxThreads == 2

\* the contexts (commit urls) of the model and the element ids asked for in
\* each; the second context is there for what must not leak between contexts
Contexts == {"c1", "c2"}
Ids == {"a", "b"}
IdsIn == [c \in Contexts |-> IF c = "c1" THEN {"a", "b"} ELSE {"a"}]
\* contents of an element record: 1 is the record the commit holds, 2 is a
\* differing record (only ever seen in a bulk listing)
Payloads == {1, 2}

----------------------------------------------------------------------------
(* Python values *)

None == [none |-> TRUE]

\* an element record as the remote serves it: {"@id": i, ...}
El(i, v) == [id |-> i, v |-> v]
\* a member of a bulk listing that carries no '@id'
NoIdItem == [v |-> 1]

Elements == {El(i, v) : i \in Ids, v \in Payloads}

\* Python truthiness of what a response body or a dict lookup can be
Truthy(x) == x # None /\ x # <<>>

\* '@id' in el
HasId(el) == "id" \in DOMAIN el

\* dict.get(key): the value, or None
DictGet(d, k) == IF k \in DOMAIN d THEN d[k] ELSE None

\* d[k] = v
DictSet(d, k, v) == [x \in (DOMAIN d) \cup {k} |-> IF x = k THEN v ELSE d[x]]

EmptyDict == [x \in {} |-> None]

SeqsUpTo(S, n) == UNION {[1..k -> S] : k \in 0..n}

----------------------------------------------------------------------------
(* The remote server: what one request can be answered with *)

\* a response: status 200 with an object body, status 200 with a list body,
\* a non-success status, or no response at all (the request raises)
ObjectResp(el) == [kind |-> "object", status |-> 200, body |-> el]
ListResp(els) == [kind |-> "list", status |-> 200, body |-> els]
StatusResp(s) == [kind |-> "status", status |-> s, body |-> None]
ConnError == [kind |-> "raise", status |-> 0, body |-> None]

FailureResps == {StatusResp(404), ConnError}

\* answers to GET <commit url>/elements/<i>: the element, a list that starts
\* with it, an empty list, or a failure
GetRespsOf ==
    [i \in Ids |->
        {ObjectResp(El(i, 1)), ListResp(<<>>), ListResp(<<El(i, 1)>>),
         ListResp(<<El(i, 1), El(i, 2)>>)} \cup FailureResps]
GetResps(i) == GetRespsOf[i]

\* what a bulk listing of context c can hold: the records with an id of c
\* ("a" also with the differing record), and a member without '@id'
BulkItems(c) ==
    {El(i, 1) : i \in IdsIn[c]} \cup {El("a", v) : v \in Payloads} \cup {NoIdItem}

\* answers to GET <commit url>/elements?page[size]=n: any list of at most
\* MaxBatch members (ids may repeat, a member may lack '@id'), an object, a failure
BulkRespsOf ==
    [c \in Contexts |->
        {ListResp(els) : els \in SeqsUpTo(BulkItems(c), MaxBatch)}
            \cup {ObjectResp(El("a", 1))}
            \cup FailureResps]
BulkResps(c) == BulkRespsOf[c]

\* the listings of the commit's own records among them: each id at most
\* once, in id order, with the record the single fetch serves
RECURSIVE ListingsOver(_)
ListingsOver(ids) ==
    IF ids = {} THEN {<<>>}
    ELSE LET i == CHOOSE x \in ids : \A y \in ids : x = "a" \/ y # "a"
         IN  {head \o tail : head \in {<<>>, <<El(i, 1)>>}, tail \in ListingsOver(ids \ {i})}
ListingRespsOf ==
    [c \in Contexts |->
        {ListResp(els) : els \in ListingsOver(IdsIn[c])}
            \cup {ObjectResp(El("a", 1))}
            \cup FailureResps]
ListingResps(c) == ListingRespsOf[c]

GetRequest(c, i) == [verb |-> "GET", ctx |-> c, what |-> i]
BulkRequest(c) == [verb |-> "GET", ctx |-> c, what |-> "elements"]

----------------------------------------------------------------------------
(* get_element_fromAPI *)

\* The outcome of a call: the value returned (None when it raised), whether
\* it raised, the cache and the memo after it, the remote requests it issued.
Outcome(ret, raised, cache, memo, requests) ==
    [ret |-> ret, raised |-> raised, cache |-> cache, memo |-> memo, requests |-> requests]

\* mutant of CacheLookup: the cache is never consulted
CacheLookupSkipped(cache, c, i) == None

\* mutant of CacheLookup: the id is looked up in the entries of every context
CacheLookupAcross(cache, c, i) ==
    IF \E d \in DOMAIN cache : i \in DOMAIN cache[d]
    THEN cache[CHOOSE d \in DOMAIN cache : i \in DOMAIN cache[d]][i]
    ELSE None

\* ELEMENT_CACHE[query_url].get(element_id) when query_url in ELEMENT_CACHE
CacheLookup(cache, c, i) ==
    IF c \in DOMAIN cache THEN DictGet(cache[c], i) ELSE None

\* mutant of CacheStore: the context's dict is created anew on every store
CacheStoreReplacing(cache, c, i, el) == DictSet(cache, c, DictSet(EmptyDict, i, el))

\* if query_url not in ELEMENT_CACHE: ELEMENT_CACHE[query_url] = {}
\* ELEMENT_CACHE[query_url][element_id] = element
CacheStore(cache, c, i, el) ==
    DictSet(cache, c, DictSet(IF c \in DOMAIN cache THEN cache[c] ELSE EmptyDict, i, el))

\* element = elements_response.json(); a list is normalised to its first item
NormalizeBody(resp) ==
    IF resp.kind = "list"
    THEN IF resp.body # <<>> THEN resp.body[1] ELSE None
    ELSE resp.body

\* The function body shared by both modules, up to the except clause:
\* reraise is TRUE for mbse4u (raise e), FALSE for api (print only).
GetElementBody(reraise, cache, memo, c, i, resp) ==
    LET cached_element == CacheLookup(cache, c, i)
        req == <<GetRequest(c, i)>>
    IN  IF Truthy(cached_element)
        THEN Outcome(cached_element, FALSE, cache, memo, <<>>)
        ELSE IF resp.kind = "raise"
        THEN Outcome(None, reraise, cache, memo, req)
        ELSE IF resp.status = 200
        THEN LET element == NormalizeBody(resp)
             IN  IF Truthy(element)
                 THEN Outcome(element, FALSE, CacheStore(cache, c, i, element), memo, req)
                 ELSE Outcome(element, FALSE, cache, memo, req)
        ELSE Outcome(None, FALSE, cache, memo, req)

\* mutant of api_get_element_fromAPI: the except clause re-raises
api_get_element_reraising(cache, memo, c, i, resp) ==
    GetElementBody(TRUE, cache, memo, c, i, resp)

\* api: the plain function
api_get_element_fromAPI(cache, memo, c, i, resp) ==
    GetElementBody(FALSE, cache, memo, c, i, resp)

\* functools.lru_cache(maxsize): a hit returns the memoized result without
\* running the function; a result that was returned (not raised) is memoized,
\* evicting another key when the memo is full.
lru_maxsize == 2048

LruInsert(memo, key, val) ==
    IF Cardinality(DOMAIN memo) >= lru_maxsize
    THEN LET victim == CHOOSE k \in DOMAIN memo : TRUE
         IN  [k \in ((DOMAIN memo) \ {victim}) \cup {key} |-> IF k = key THEN val ELSE memo[k]]
    ELSE DictSet(memo, key, val)

\* mbse4u: @lru_cache(maxsize=2048) around the function
get_element_fromAPI(cache, memo, c, i, resp) ==
    IF <<c, i>> \in DOMAIN memo
    THEN Outcome(memo[<<c, i>>], FALSE, cache, memo, <<>>)
    ELSE LET r == GetElementBody(TRUE, cache, memo, c, i, resp)
         IN  IF r.raised THEN r
             ELSE [r EXCEPT !.memo = LruInsert(memo, <<c, i>>, r.ret)]

\* the get_element_fromAPI of the module the process runs
GetElement(mod, cache, memo, c, i, resp) ==
    IF mod = "mbse4u"
    THEN get_element_fromAPI(cache, memo, c, i, resp)
    ELSE api_get_element_fromAPI(cache, memo, c, i, resp)

----------------------------------------------------------------------------
(* load_model_cache *)

RECURSIVE CacheEntryFirstWins(_)
\* mutant of CacheEntryOf: an id already in cache_entry is not overwritten
CacheEntryFirstWins(elements) ==
    IF elements = <<>> THEN EmptyDict
    ELSE LET rest == CacheEntryFirstWins(Tail(elements))
             el == Head(elements)
         IN  IF HasId(el) THEN DictSet(rest, el.id, el) ELSE rest

RECURSIVE CacheEntryOf(_)
\* cache_entry = {}; for el in elements: if '@id' in el: cache_entry[el['@id']] = el
CacheEntryOf(elements) ==
    IF elements = <<>> THEN EmptyDict
    ELSE LET n == Len(elements)
             rest == CacheEntryOf(SubSeq(elements, 1, n - 1))
             el == elements[n]
         IN  IF HasId(el) THEN DictSet(rest, el.id, el) ELSE rest

\* mutant of load_model_cache: the batch is merged into the context's dict
LoadMerging(cache, memo, c, resp) ==
    IF resp.kind = "list"
    THEN LET cache_entry == CacheEntryOf(resp.body)
             old == IF c \in DOMAIN cache THEN cache[c] ELSE EmptyDict
         IN  Outcome(Cardinality(DOMAIN cache_entry), FALSE,
                     DictSet(cache, c, cache_entry @@ old), memo, <<BulkRequest(c)>>)
    ELSE Outcome(None, TRUE, cache, memo, <<BulkRequest(c)>>)

\* mutant of load_model_cache: the context's dict is emptied before the
\* request is made
LoadClearing(cache, memo, c, resp) ==
    IF resp.kind = "raise" \/ resp.status # 200 \/ resp.kind # "list"
    THEN Outcome(None, TRUE, DictSet(cache, c, EmptyDict), memo, <<BulkRequest(c)>>)
    ELSE LET cache_entry == CacheEntryOf(resp.body)
         IN  Outcome(Cardinality(DOMAIN cache_entry), FALSE,
                     DictSet(cache, c, cache_entry), memo, <<BulkRequest(c)>>)

\* the same function in both modules (only the page size differs)
load_model_cache(cache, memo, c, resp) ==
    IF resp.kind = "raise" \/ resp.status # 200 \/ resp.kind # "list"
    THEN Outcome(None, TRUE, cache, memo, <<BulkRequest(c)>>)
    ELSE LET cache_entry == CacheEntryOf(resp.body)
         IN  Outcome(Cardinality(DOMAIN cache_entry), FALSE,
                     DictSet(cache, c, cache_entry), memo, <<BulkRequest(c)>>)

----------------------------------------------------------------------------
(* The state machine: the process serves one call after the other *)

\* again: the call is a get_element_fromAPI for a pair an earlier call returned an element for
NoCall == [op |-> "none", ctx |-> "-", id |-> "-", resp |-> None,
           ret |-> None, raised |-> FALSE, requests |-> <<>>, again |-> FALSE]

\* no call of check_specialization_hierarchy is running
\* error: "none", or what the call raised: "network" (an exception of a
\* single fetch passed on), "recursion" (RecursionError)
\* expanded: history, the ids whose ownedSpecialization list the call walked
\* walked: history, the pairs (element id, id of a general of it that resolved)
NoCheck == [status |-> "idle", start |-> "-", target |-> "-", stack |-> <<>>,
            visited |-> {}, result |-> FALSE, error |-> "none", expanded |-> <<>>,
            walked |-> {}]

\* the process after import, talking to a server whose commit holds elements
\* the request threads of the server (app.run: one thread per request)
Threads == 1..MaxThreads
Idle == [pc |-> "idle", ctx |-> "-", id |-> "-", element |-> None, ret |-> None,
         issued |-> FALSE, with |-> {}]

InitWith(elements) ==
    /\ module \in {"mbse4u", "api"}
    /\ ELEMENT_CACHE = [c \in {} |-> EmptyDict]
    /\ lru = [k \in {} |-> None]
    /\ last = NoCall
    /\ resolved = {}
    /\ failed = {}
    /\ kind_lru = [k \in {} |-> None]
    /\ remote = elements
    /\ hier = NoCheck
    /\ threads = [t \in Threads |-> Idle]
    /\ SYSMOD_CACHE = EmptyDict

Init == InitWith(EmptyDict)

\* a call get_element_fromAPI(c, i), answered with resp if it asks the remote
CallGetElement(c, i, resp) ==
    LET r == GetElement(module, ELEMENT_CACHE, lru, c, i, resp)
        gotElement == ~r.raised /\ Truthy(r.ret)
    IN  /\ ELEMENT_CACHE' = r.cache
        /\ lru' = r.memo
        /\ last' = [op |-> "get", ctx |-> c, id |-> i,
                    resp |-> IF r.requests = <<>> THEN None ELSE resp,
                    ret |-> r.ret, raised |-> r.raised, requests |-> r.requests,
                    again |-> <<c, i>> \in resolved]
        /\ resolved' = IF gotElement THEN resolved \cup {<<c, i>>} ELSE resolved
        /\ failed' = IF gotElement THEN failed \ {<<c, i>>}
                      ELSE IF r.requests # <<>> THEN failed \cup {<<c, i>>}
                      ELSE failed
        /\ UNCHANGED <<module, SYSMOD_CACHE, kind_lru, remote, hier, threads>>

\* a call load_model_cache(server, project, commit) for context c
CallLoadModelCache(c, resp) ==
    LET r == load_model_cache(ELEMENT_CACHE, lru, c, resp)
    IN  /\ ELEMENT_CACHE' = r.cache
        /\ lru' = r.memo
        /\ last' = [op |-> "load", ctx |-> c, id |-> "-", resp |-> resp,
                    ret |-> r.ret, raised |-> r.raised, requests |-> r.requests,
                    again |-> FALSE]
        /\ UNCHANGED <<module, SYSMOD_CACHE, resolved, failed, kind_lru, remote, hier, threads>>

GetElementStep == \E c \in Contexts : \E i \in IdsIn[c] : \E resp \in GetResps(i) : CallGetElement(c, i, resp)
LoadModelCacheStep == \E c \in Contexts : \E resp \in ListingResps(c) : CallLoadModelCache(c, resp)

Next ==
    \/ GetElementStep
    \/ LoadModelCacheStep

Spec == Init /\ [][Next]_vars

----------------------------------------------------------------------------
(* Warming: every bulk response of at most MaxBatch members for the first
   context, between single fetches that succeed or fail *)

WarmContext == "c1"

WarmGetStep ==
    \E i \in IdsIn[WarmContext] : \E resp \in {ObjectResp(El(i, 1))} \cup FailureResps :
        CallGetElement(WarmContext, i, resp)
WarmLoadStep == \E resp \in BulkResps(WarmContext) : CallLoadModelCache(WarmContext, resp)
WarmLoadOtherStep ==
    \E c \in Contexts \ {WarmContext} : \E resp \in ListingResps(c) : CallLoadModelCache(c, resp)

NextWarm ==
    \/ WarmGetStep
    \/ WarmLoadStep
    \/ WarmLoadOtherStep

SpecWarm == Init /\ [][NextWarm]_vars

----------------------------------------------------------------------------
(* The query functions: get_elements_byKind_fromAPI, get_elements_byProperty_fromAPI *)

\* the elements of the queried commit: features "a" and "b", and the
\* relationship "r" that "b" may own, with "a" as its redefinedFeature
Feature(i, n, rels) ==
    [id |-> i, type |-> "PartUsage", declaredName |-> n, ownedRelationship |-> rels]
Relationship(i, t, f) == [id |-> i, type |-> t, redefinedFeature |-> f]

Names == {"x", "y"}
RelationshipTypes == {"Redefinition", "FeatureTyping"}
\* the '@type' values of the elements a kind query is issued for
ElementTypes == {"PartUsage", "PartDefinition"} \cup RelationshipTypes

QueryRepos ==
    {("a" :> Feature("a", "x", <<>>)) @@ ("b" :> Feature("b", nb, rb)) @@ ("r" :> Relationship("r", t, "a")) :
        nb \in Names, rb \in {<<>>, <<"r">>}, t \in RelationshipTypes}

\* the order in which the server lists elements
IdOrder == <<"a", "b", "r", "t">>

\* el.get(f) == s, for a string s
FieldIs(el, f, s) == f \in DOMAIN el /\ el[f] = s

RECURSIVE Selected(_, _, _, _)
\* the elements of rem whose field f is s, ids taken in the order of ids
Selected(rem, ids, f, s) ==
    IF ids = <<>> THEN <<>>
    ELSE LET i == Head(ids)
             rest == Selected(rem, Tail(ids), f, s)
         IN  IF i \in DOMAIN rem /\ FieldIs(rem[i], f, s) THEN <<rem[i]>> \o rest ELSE rest

\* what the server answers when nothing fails
QueryAnswer(rem, property, value) == ListResp(Selected(rem, IdOrder, property, value))
GetAnswer(rem, i) == IF i \in DOMAIN rem THEN ObjectResp(rem[i]) ELSE StatusResp(404)

\* a request of a call is answered as the commit says, or fails
Ok == [kind |-> "ok", status |-> 200, body |-> None]
Answer(fail, honest) == IF fail = Ok THEN honest ELSE fail
RequestClasses == {"query", "kind", "get"}
FailurePatterns == [RequestClasses -> {Ok} \cup FailureResps]

QueryRequest(c, property, value) ==
    [verb |-> "POST", ctx |-> c, what |-> value, property |-> property]

\* what a query call gives back: the list returned, whether it raised, the
\* cache and the memos after it, the requests it issued
QueryOutcome(ret, raised, cache, memo, kmemo, requests) ==
    [ret |-> ret, raised |-> raised, cache |-> cache, memo |-> memo,
     kmemo |-> kmemo, requests |-> requests]

\* try: post; status 200: return the json; else raise ValueError
\* except Exception: print; return []
KindBody(resp) ==
    IF resp.kind = "raise" THEN <<>>
    ELSE IF resp.status = 200 THEN resp.body
    ELSE <<>>

\* mbse4u: the plain function
get_elements_byKind_fromAPI(cache, memo, kmemo, c, kind, resp) ==
    QueryOutcome(KindBody(resp), FALSE, cache, memo, kmemo, <<QueryRequest(c, "@type", kind)>>)

kind_lru_maxsize == 128

KindLruInsert(kmemo, key, val) ==
    IF Cardinality(DOMAIN kmemo) >= kind_lru_maxsize
    THEN LET victim == CHOOSE k \in DOMAIN kmemo : TRUE
         IN  [k \in ((DOMAIN kmemo) \ {victim}) \cup {key} |-> IF k = key THEN val ELSE kmemo[k]]
    ELSE DictSet(kmemo, key, val)

\* api: @lru_cache(maxsize=128) around the same function
api_get_elements_byKind_fromAPI(cache, memo, kmemo, c, kind, resp) ==
    IF <<c, kind>> \in DOMAIN kmemo
    THEN QueryOutcome(kmemo[<<c, kind>>], FALSE, cache, memo, kmemo, <<>>)
    ELSE QueryOutcome(KindBody(resp), FALSE, cache, memo,
                      KindLruInsert(kmemo, <<c, kind>>, KindBody(resp)),
                      <<QueryRequest(c, "@type", kind)>>)

GetElementsByKind(mod, cache, memo, kmemo, c, kind, resp) ==
    IF mod = "mbse4u"
    THEN get_elements_byKind_fromAPI(cache, memo, kmemo, c, kind, resp)
    ELSE api_get_elements_byKind_fromAPI(cache, memo, kmemo, c, kind, resp)

\* The progress of get_elements_byProperty_fromAPI inside its try block:
\* error is set when a statement raised (the except clause then returns []).
Progress(cache, memo, requests, additional, error) ==
    [cache |-> cache, memo |-> memo, requests |-> requests,
     additional |-> additional, error |-> error]

\* after a nested get_element_fromAPI: its effects, and whether it raised or
\* gave None, on which the following .get raises AttributeError
AfterGet(st, g) ==
    [st EXCEPT !.cache = g.cache, !.memo = g.memo,
               !.requests = st.requests \o g.requests,
               !.error = g.raised \/ g.ret = None]

\* the answers of the server during one call: to the query itself, to the
\* nested kind queries, to the nested single fetches
Env(rem, fails, property, value) ==
    [query |-> Answer(fails["query"], QueryAnswer(rem, property, value)),
     kind |-> [k \in ElementTypes |->
                  Answer(fails["kind"], QueryAnswer(rem, "type", k))],
     get |-> [i \in {"a", "b", "r"} |-> Answer(fails["get"], GetAnswer(rem, i))]]

\* the member of a one-element set: Only({F(x) : x \in {e}}) is F(e) with e
\* evaluated once
Only(S) == CHOOSE x \in S : TRUE

\* after redefinedElement = get_element_fromAPI(...):
\* if redefinedElement.get(property) == value: additional_elements.append(el)
AfterRedefined(st, g2, property, value, el) ==
    LET st2 == AfterGet(st, g2)
    IN  IF st2.error THEN st2
        ELSE IF FieldIs(g2.ret, property, value)
        THEN [st2 EXCEPT !.additional = Append(st2.additional, el)]
        ELSE st2

\* relationship = get_element_fromAPI(...); if it is a Redefinition, the
\* element it redefines is fetched and compared
AfterRelationship(st, g1, c, property, value, el, env) ==
    LET st1 == AfterGet(st, g1)
        relationship == g1.ret
    IN  IF st1.error THEN st1
        ELSE IF ~FieldIs(relationship, "type", "Redefinition") THEN st1
        ELSE IF "redefinedFeature" \notin DOMAIN relationship
        THEN [st1 EXCEPT !.error = TRUE]
        ELSE Only({AfterRedefined(s, g2, property, value, el) :
                      s \in {st1},
                      g2 \in {get_element_fromAPI(st1.cache, st1.memo, c,
                                                  relationship.redefinedFeature,
                                                  env.get[relationship.redefinedFeature])}})

RECURSIVE RelationshipLoop(_, _, _, _, _, _, _)
\* for relationshipID in el.get('ownedRelationship', []): ...
RelationshipLoop(st, c, property, value, el, rels, env) ==
    IF st.error \/ rels = <<>> THEN st
    ELSE Only({RelationshipLoop(s, c, property, value, el, Tail(rels), env) :
                  s \in {AfterRelationship(
                            st, get_element_fromAPI(st.cache, st.memo, c, Head(rels),
                                                    env.get[Head(rels)]),
                            c, property, value, el, env)}})

RECURSIVE SameTypeLoop(_, _, _, _, _, _, _)
\* for el in elementsOfSameType: if el.get('@id') != element.get('@id'): ...
SameTypeLoop(st, c, property, value, element, sameType, env) ==
    IF st.error \/ sameType = <<>> THEN st
    ELSE LET el == Head(sameType)
         IN  Only({SameTypeLoop(s, c, property, value, element, Tail(sameType), env) :
                      s \in {IF el.id # element.id
                             THEN RelationshipLoop(st, c, property, value, el,
                                                   IF "ownedRelationship" \in DOMAIN el
                                                   THEN el.ownedRelationship ELSE <<>>, env)
                             ELSE st}})

RECURSIVE ElementLoop(_, _, _, _, _, _)
\* for element in query_response_json: elementsOfSameType = get_elements_byKind_fromAPI(...)
ElementLoop(st, c, property, value, elements, env) ==
    IF st.error \/ elements = <<>> THEN st
    ELSE LET element == Head(elements)
         IN  Only({ElementLoop(s, c, property, value, Tail(elements), env) :
                      s \in {SameTypeLoop(
                                [st EXCEPT !.requests = @ \o k.requests],
                                c, property, value, element, k.ret, env) :
                             k \in {get_elements_byKind_fromAPI(
                                        st.cache, st.memo, <<>>, c, element.type,
                                        env.kind[element.type])}}})

\* a list that is a member of a list of elements
PyList(l) == [list |-> l]

\* mbse4u only: the query, the search for redefining elements, and
\* query_response_json.append(additional_elements) before the return
get_elements_byProperty_fromAPI(cache, memo, kmemo, c, property, value, env) ==
    LET req == <<QueryRequest(c, property, value)>>
        resp == env.query
    IN  IF resp.kind = "raise" \/ resp.status # 200
        THEN QueryOutcome(<<>>, FALSE, cache, memo, kmemo, req)
        ELSE Only({IF st.error
                   THEN QueryOutcome(<<>>, FALSE, st.cache, st.memo, kmemo, st.requests)
                   ELSE QueryOutcome(Append(resp.body, PyList(st.additional)), FALSE,
                                     st.cache, st.memo, kmemo, st.requests) :
                      st \in {ElementLoop(Progress(cache, memo, req, <<>>, FALSE),
                                          c, property, value, resp.body, env)}})

\* a call get_elements_byKind_fromAPI(server, project, commit, kind)
CallByKind(c, kind, fail) ==
    LET resp == Answer(fail, QueryAnswer(remote, "type", kind))
        r == GetElementsByKind(module, ELEMENT_CACHE, lru, kind_lru, c, kind, resp)
    IN  /\ kind_lru' = r.kmemo
        /\ last' = [op |-> "byKind", ctx |-> c, id |-> kind,
                    resp |-> IF r.requests = <<>> THEN None ELSE resp,
                    ret |-> r.ret, raised |-> r.raised, requests |-> r.requests,
                    again |-> FALSE]
        /\ UNCHANGED <<module, SYSMOD_CACHE, ELEMENT_CACHE, lru, resolved, failed, remote, hier, threads>>

\* a call get_elements_byProperty_fromAPI(server, project, commit, property, value)
CallByProperty(c, property, value, fails) ==
    \E env \in {Env(remote, fails, property, value)} :
    \E r \in {get_elements_byProperty_fromAPI(ELEMENT_CACHE, lru, kind_lru, c, property, value, env)} :
        /\ module = "mbse4u"
        /\ ELEMENT_CACHE' = r.cache
        /\ lru' = r.memo
        /\ last' = [op |-> "byProperty", ctx |-> c, id |-> value, resp |-> env.query,
                    ret |-> r.ret, raised |-> r.raised, requests |-> r.requests,
                    again |-> FALSE]
        /\ UNCHANGED <<module, SYSMOD_CACHE, kind_lru, resolved, failed, remote, hier, threads>>

QueryContext == "c1"
Kinds == {"PartUsage", "Redefinition"}
Values == Names \cup {"z"}

ByKindStep ==
    \E kind \in Kinds : \E fail \in {Ok} \cup FailureResps : CallByKind(QueryContext, kind, fail)
ByPropertyStep ==
    \E value \in Values : \E fails \in FailurePatterns :
        CallByProperty(QueryContext, "declaredName", value, fails)

InitQuery == \E rem \in QueryRepos : InitWith(rem)

NextQuery ==
    \/ ByKindStep
    \/ ByPropertyStep

SpecQuery == InitQuery /\ [][NextQuery]_vars

----------------------------------------------------------------------------
(* check_specialization_hierarchy, one step per entry of the function and
   per iteration of its loop *)

\* longest ownedSpecialization list of an element
MaxSpecs == 2
\* deepest recursion followed; one level more raises RecursionError
MaxDepth == 5

HierNodes == {"a", "b", "t"}
NodeOrder == <<"a", "b", "t">>
\* names need not be unique in a commit: "b" and "t" bear the same name
NodeName == [i \in HierNodes |-> IF i = "a" THEN "A" ELSE "B"]

\* the id of the Specialization relationship from i to its general j
SpecId(i, j) ==
    CASE <<i, j>> = <<"a", "a">> -> "aa" [] <<i, j>> = <<"a", "b">> -> "ab"
      [] <<i, j>> = <<"a", "t">> -> "at" [] <<i, j>> = <<"b", "a">> -> "ba"
      [] <<i, j>> = <<"b", "b">> -> "bb" [] <<i, j>> = <<"b", "t">> -> "bt"
      [] <<i, j>> = <<"t", "a">> -> "ta" [] <<i, j>> = <<"t", "b">> -> "tb"
      [] OTHER -> "tt"

RECURSIVE SpecRefs(_, _, _)
\* the ownedSpecialization list of i: one reference per general, in NodeOrder
SpecRefs(i, generals, order) ==
    IF order = <<>> THEN <<>>
    ELSE (IF Head(order) \in generals THEN <<SpecId(i, Head(order))>> ELSE <<>>)
             \o SpecRefs(i, generals, Tail(order))

\* "a" and "b" are usages, "t" is a definition
NodeType == [i \in HierNodes |-> IF i = "t" THEN "PartDefinition" ELSE "PartUsage"]

Node(i, generals) ==
    [id |-> i, type |-> NodeType[i], name |-> NodeName[i], qualifiedName |-> NodeName[i],
     ownedSpecialization |-> SpecRefs(i, generals, NodeOrder)]
Specialization(i, j) == [id |-> SpecId(i, j), general |-> j]

\* the specialization graphs: every node has at most MaxSpecs generals
\* (itself and cycles included)
Graphs == [HierNodes -> {G \in SUBSET HierNodes : Cardinality(G) <= MaxSpecs}]

\* the commit that holds the graph g
HierRepo(g) ==
    LET edges == {p \in HierNodes \X HierNodes : p[2] \in g[p[1]]}
        nodes == [i \in HierNodes |-> Node(i, g[i])]
        rels == [x \in {SpecId(p[1], p[2]) : p \in edges} |->
                    LET p == CHOOSE q \in edges : SpecId(q[1], q[2]) = x
                    IN  Specialization(p[1], p[2])]
    IN  nodes @@ rels

HierContext == "c1"

\* a frame of the recursion: the element of the call, and where it stands:
\* k = 0 at its entry, k >= 1 before the k-th member of ownedSpecialization
Frame(el, k) == [el |-> el, k |-> k]

\* element.get('ownedSpecialization', [])
OwnedSpecialization(el) ==
    IF "ownedSpecialization" \in DOMAIN el THEN el.ownedSpecialization ELSE <<>>

\* mutant of AlreadyVisited: the visited set is not looked at
NeverVisited(el_id, visited) == FALSE

\* if el_id in visited
AlreadyVisited(el_id, visited) == el_id \in visited

\* mbse4u: element.get('@id') == super_element.get('@id')
\* api:    element.get('name') == target_name
IsTarget(mod, element, rem, t) ==
    IF mod = "mbse4u"
    THEN FieldIs(element, "id", rem[t].id)
    ELSE FieldIs(element, "name", NodeName[t])

\* the call on top of the stack returns False: its caller goes on with its loop
ReturnFalse(h) ==
    IF Len(h.stack) = 1
    THEN [h EXCEPT !.status = "done", !.result = FALSE, !.stack = <<>>]
    ELSE [h EXCEPT !.stack = SubSeq(h.stack, 1, Len(h.stack) - 1)]

\* the call on top of the stack returns True: so does every caller
ReturnTrue(h) == [h EXCEPT !.status = "done", !.result = TRUE, !.stack = <<>>]

\* an exception leaves every frame
Raise(h, err) == [h EXCEPT !.status = "done", !.error = err, !.stack = <<>>]

\* mutant of StartCheck: the set of the call before is used again (a mutable
\* default argument, visited=set())
StartCheckShared(rem, s, t) ==
    [status |-> "running", start |-> s, target |-> t, stack |-> <<Frame(rem[s], 0)>>,
     visited |-> hier.visited, result |-> FALSE, error |-> "none", expanded |-> <<>>,
     walked |-> {}]

\* check_specialization_hierarchy(query_url, element, super_element):
\* visited = set() and the first frame
StartCheck(rem, s, t) ==
    [status |-> "running", start |-> s, target |-> t, stack |-> <<Frame(rem[s], 0)>>,
     visited |-> {}, result |-> FALSE, error |-> "none", expanded |-> <<>>,
     walked |-> {}]

\* the entry of the function, up to the loop
Enter(h, mod, rem) ==
    LET n == Len(h.stack)
        element == h.stack[n].el
        el_id == element.id
    IN  IF AlreadyVisited(el_id, h.visited) THEN ReturnFalse(h)
        ELSE LET h1 == [h EXCEPT !.visited = @ \cup {el_id}]
             IN  IF IsTarget(mod, element, rem, h.target) THEN ReturnTrue(h1)
                 ELSE [h1 EXCEPT !.stack[n].k = 1, !.expanded = Append(@, el_id)]

HierOutcome(h, cache, memo) == [hier |-> h, cache |-> cache, memo |-> memo]

\* one iteration of "for rel_ref in element.get('ownedSpecialization', [])":
\* fetch the relationship, fetch its general, call the function for it
Iterate(h, mod, cache, memo, rem, c, fail1, fail2) ==
    LET n == Len(h.stack)
        rel_ref == OwnedSpecialization(h.stack[n].el)[h.stack[n].k]
        next == [h EXCEPT !.stack[n].k = @ + 1]
        g1 == GetElement(mod, cache, memo, c, rel_ref, Answer(fail1, GetAnswer(rem, rel_ref)))
        rel == g1.ret
    IN  IF g1.raised THEN HierOutcome(Raise(h, "network"), g1.cache, g1.memo)
        ELSE IF ~Truthy(rel) \/ "general" \notin DOMAIN rel
        THEN HierOutcome(next, g1.cache, g1.memo)
        ELSE LET g2 == GetElement(mod, g1.cache, g1.memo, c, rel.general,
                                  Answer(fail2, GetAnswer(rem, rel.general)))
                 general_el == g2.ret
             IN  IF g2.raised THEN HierOutcome(Raise(h, "network"), g2.cache, g2.memo)
                 ELSE IF ~Truthy(general_el) THEN HierOutcome(next, g2.cache, g2.memo)
                 ELSE IF n >= MaxDepth
                 THEN HierOutcome(Raise(h, "recursion"), g2.cache, g2.memo)
                 ELSE HierOutcome([next EXCEPT !.stack = Append(@, Frame(general_el, 0)),
                                               !.walked = @ \cup {<<h.stack[n].el.id, general_el.id>>}],
                                  g2.cache, g2.memo)

Running == hier.status = "running"
Top == hier.stack[Len(hier.stack)]

HierCallStep ==
    /\ hier.status = "idle"
    /\ \E s \in HierNodes, t \in HierNodes : hier' = StartCheck(remote, s, t)
    /\ UNCHANGED <<module, SYSMOD_CACHE, ELEMENT_CACHE, lru, last, resolved, failed, kind_lru, remote, threads>>

HierEnterStep ==
    /\ Running /\ Top.k = 0
    /\ hier' = Enter(hier, module, remote)
    /\ UNCHANGED <<module, SYSMOD_CACHE, ELEMENT_CACHE, lru, last, resolved, failed, kind_lru, remote, threads>>

HierIterateStep ==
    /\ Running /\ Top.k >= 1 /\ Top.k <= Len(OwnedSpecialization(Top.el))
    /\ \E fail1, fail2 \in {Ok} \cup FailureResps :
          LET r == Iterate(hier, module, ELEMENT_CACHE, lru, remote, HierContext, fail1, fail2)
          IN  /\ hier' = r.hier
              /\ ELEMENT_CACHE' = r.cache
              /\ lru' = r.memo
    /\ UNCHANGED <<module, SYSMOD_CACHE, last, resolved, failed, kind_lru, remote, threads>>

\* the loop is over: return False
HierExhaustedStep ==
    /\ Running /\ Top.k > Len(OwnedSpecialization(Top.el))
    /\ hier' = ReturnFalse(hier)
    /\ UNCHANGED <<module, SYSMOD_CACHE, ELEMENT_CACHE, lru, last, resolved, failed, kind_lru, remote, threads>>

InitHier == \E g \in Graphs : InitWith(HierRepo(g))

HierStep ==
    \/ HierEnterStep
    \/ HierIterateStep
    \/ HierExhaustedStep

NextHier ==
    \/ HierCallStep
    \/ HierStep

\* the interpreter goes on with a call that is running
SpecHier == InitHier /\ [][NextHier]_vars /\ WF_vars(HierStep)

----------------------------------------------------------------------------
(* check_specialization_hierarchy as the recursive function it is, for its
   callers *)

\* the walk so far: the effects of its single fetches, the visited set, what
\* it raised ("none", "network"), and the value of the call that returned last
Walk(cache, memo, requests, visited, error, ret) ==
    [cache |-> cache, memo |-> memo, requests |-> requests, visited |-> visited,
     error |-> error, ret |-> ret]

\* after a single fetch of the walk
AfterFetch(w, g) ==
    [w EXCEPT !.cache = g.cache, !.memo = g.memo, !.requests = w.requests \o g.requests,
              !.error = IF g.raised THEN "network" ELSE w.error]

\* element.get('@id') == super_element.get('@id') in one helper,
\* element.get('name') == target_name in the other
TargetMatch(mod, element, target) ==
    IF mod = "mbse4u"
    THEN DictGet(element, "id") = DictGet(target, "id")
    ELSE DictGet(element, "name") = target

RECURSIVE check_specialization_hierarchy(_, _, _, _, _, _, _)
RECURSIVE SpecializationLoop(_, _, _, _, _, _, _)

\* general_el = get_element_fromAPI(...);
\* if general_el and check_specialization_hierarchy(...): return True
AfterGeneral(mod, w, g2, rem, c, rels, target, fail) ==
    IF w.error # "none" THEN w
    ELSE IF ~Truthy(g2.ret) THEN SpecializationLoop(mod, w, rem, c, Tail(rels), target, fail)
    ELSE Only({IF r.error # "none" \/ r.ret THEN r
               ELSE SpecializationLoop(mod, r, rem, c, Tail(rels), target, fail) :
                  r \in {check_specialization_hierarchy(mod, w, rem, c, g2.ret, target, fail)}})

\* rel = get_element_fromAPI(...); if rel: general = rel.get('general'); if general: ...
AfterRel(mod, w, g1, rem, c, rels, target, fail) ==
    IF w.error # "none" THEN w
    ELSE IF ~Truthy(g1.ret) \/ "general" \notin DOMAIN g1.ret
    THEN SpecializationLoop(mod, w, rem, c, Tail(rels), target, fail)
    ELSE Only({AfterGeneral(mod, AfterFetch(w, g2), g2, rem, c, rels, target, fail) :
                  g2 \in {GetElement(mod, w.cache, w.memo, c, g1.ret.general,
                                     Answer(fail, GetAnswer(rem, g1.ret.general)))}})

\* for rel_ref in element.get('ownedSpecialization', []): ...; return False
SpecializationLoop(mod, w, rem, c, rels, target, fail) ==
    IF w.error # "none" THEN w
    ELSE IF rels = <<>> THEN [w EXCEPT !.ret = FALSE]
    ELSE Only({AfterRel(mod, AfterFetch(w, g1), g1, rem, c, rels, target, fail) :
                  g1 \in {GetElement(mod, w.cache, w.memo, c, Head(rels),
                                     Answer(fail, GetAnswer(rem, Head(rels))))}})

\* the function; w carries the visited set of the whole walk
check_specialization_hierarchy(mod, w, rem, c, element, target, fail) ==
    IF AlreadyVisited(element.id, w.visited) THEN [w EXCEPT !.ret = FALSE]
    ELSE IF TargetMatch(mod, element, target)
    THEN [w EXCEPT !.visited = @ \cup {element.id}, !.ret = TRUE]
    ELSE Only({SpecializationLoop(mod, w1, rem, c, OwnedSpecialization(element), target, fail) :
                  w1 \in {[w EXCEPT !.visited = @ \cup {element.id}]}})

----------------------------------------------------------------------------
(* find_elements_specializing *)

MaxCandidates == 2

\* what a call of find_elements_specializing leaves: the list returned, what
\* it raised ("none", "network", "AttributeError"), the supertype it used
FindOutcome(ret, error, super, cache, memo, requests) ==
    [ret |-> ret, error |-> error, super |-> super, cache |-> cache, memo |-> memo,
     requests |-> requests]

NewWalk(cache, memo, requests) == Walk(cache, memo, requests, {}, "none", FALSE)

\* if element_kind and el.get('@type') != element_kind: continue
\* (element_kind is a string here: "" stands for the falsy values, None and '')
KindFilterSkips(el, element_kind) ==
    element_kind # "" /\ DictGet(el, "type") # element_kind

\* if el.get('@id') != super_element.get('@id'): found_elements.append(el);
\* the other helper appends every element the check holds for
Appended(mod, el, target) ==
    mod # "mbse4u" \/ DictGet(el, "id") # DictGet(target, "id")

RECURSIVE CandidateLoop(_, _, _, _, _, _, _, _, _)
\* for el in elements: ...; return found_elements
CandidateLoop(mod, st, rem, c, elements, target, element_kind, fail, found) ==
    IF elements = <<>>
    THEN FindOutcome(found, "none", target, st.cache, st.memo, st.requests)
    ELSE LET el == Head(elements)
         IN  IF KindFilterSkips(el, element_kind)
             THEN CandidateLoop(mod, st, rem, c, Tail(elements), target, element_kind, fail, found)
             ELSE Only({IF w.error # "none"
                        THEN FindOutcome(None, w.error, target, w.cache, w.memo, w.requests)
                        ELSE CandidateLoop(mod, w, rem, c, Tail(elements), target, element_kind, fail,
                                           IF w.ret /\ Appended(mod, el, target)
                                           THEN Append(found, el) ELSE found) :
                           w \in {check_specialization_hierarchy(
                                      mod, NewWalk(st.cache, st.memo, st.requests),
                                      rem, c, el, target, fail)}})

\* a lookup taking the last element the query found
SuperOfLast(super_elements) ==
    super_elements[IF Len(super_elements) > 2 THEN Len(super_elements) - 1 ELSE 1]

\* super_element = super_elements[0]
SuperOf(super_elements) == super_elements[1]

\* the list get_elements_byProperty_fromAPI appends to its result has no 'get'
IsElement(super_elements) == Len(super_elements) > 1

find_elements_specializing(cache, memo, kmemo, c, elements, name, element_kind, rem, fails) ==
    Only({IF q.ret = <<>>
          THEN FindOutcome(<<>>, "none", None, q.cache, q.memo, q.requests)
          ELSE IF ~IsElement(q.ret)
          THEN FindOutcome(None, "AttributeError", SuperOf(q.ret), q.cache, q.memo, q.requests)
          ELSE CandidateLoop("mbse4u", NewWalk(q.cache, q.memo, q.requests), rem, c, elements,
                             SuperOf(q.ret), element_kind, fails["get"], <<>>) :
             q \in {get_elements_byProperty_fromAPI(
                        cache, memo, kmemo, c, "qualifiedName", name,
                        Env(rem, fails, "qualifiedName", name))}})

api_find_elements_specializing(cache, memo, c, elements, target_name, element_kind, rem, fails) ==
    CandidateLoop("api", NewWalk(cache, memo, <<>>), rem, c, elements, target_name,
                  element_kind, fails["get"], <<>>)

FindElementsSpecializing(mod, cache, memo, kmemo, c, elements, name, element_kind, rem, fails) ==
    IF mod = "mbse4u"
    THEN find_elements_specializing(cache, memo, kmemo, c, elements, name, element_kind, rem, fails)
    ELSE api_find_elements_specializing(cache, memo, c, elements, name, element_kind, rem, fails)

\* (one call from the fresh module per behaviour)
CallFind(c, ids, name, element_kind, fails) ==
    /\ last = NoCall
    /\ \E r \in {FindElementsSpecializing(module, ELEMENT_CACHE, lru, kind_lru, c,
                                       [k \in DOMAIN ids |-> remote[ids[k]]],
                                       name, element_kind, remote, fails)} :
        /\ ELEMENT_CACHE' = r.cache
        /\ lru' = r.memo
        /\ last' = [op |-> "find", ctx |-> c, id |-> name, resp |-> None,
                    ret |-> r.ret, raised |-> r.error # "none", requests |-> r.requests,
                    again |-> FALSE, elements |-> ids, kind |-> element_kind,
                    super |-> r.super, fails |-> fails, error |-> r.error]
        /\ UNCHANGED <<module, SYSMOD_CACHE, kind_lru, resolved, failed, remote, hier, threads>>

\* the names asked for: those of the repository and one no element has
SuperNames == {"A", "B", "Z"}
FindKinds == {"", "PartUsage"}
\* every specialization graph over the nodes with at most one general each
FindGraphs == {g \in Graphs : \A i \in HierNodes : Cardinality(g[i]) <= 1}

\* the server fails no request, or every request of one class
FindFailures == {f \in FailurePatterns : Cardinality({k \in RequestClasses : f[k] # Ok}) <= 1}

FindStep ==
    \E ids \in SeqsUpTo(HierNodes, MaxCandidates), name \in SuperNames,
       element_kind \in FindKinds, fails \in FindFailures :
        CallFind(HierContext, ids, name, element_kind, fails)

InitFind == \E g \in FindGraphs : InitWith(HierRepo(g))

NextFind == FindStep

SpecFind == InitFind /\ [][NextFind]_vars

----------------------------------------------------------------------------
(* get_feature_value, get_feature, get_attribute_value_from_usage *)

\* Python values a feature can have: tagged, so that 0, False and '' differ
PyInt(n) == [int |-> n]
PyStr(str) == [str |-> str]
PyBool(b) == [bool |-> b]

\* d.get(k) of a field that holds a string
GetStr(d, k) == IF k \in DOMAIN d THEN PyStr(d[k]) ELSE None

\* what a call leaves: its return value, what it raised ("none", "network",
\* "AttributeError", "TypeError"), and the effects of its fetches
ValueOutcome(ret, error, cache, memo, requests) ==
    [ret |-> ret, error |-> error, cache |-> cache, memo |-> memo, requests |-> requests]

Returns(st, ret) == [st EXCEPT !.ret = ret]
Raises(st, error) == [st EXCEPT !.ret = None, !.error = error]

\* get_element_fromAPI(query_url, i) against the server holding rem
Fetch(mod, st, rem, c, i) == GetElement(mod, st.cache, st.memo, c, i, GetAnswer(rem, i))

Fetched(st, g) ==
    [st EXCEPT !.cache = g.cache, !.memo = g.memo, !.requests = st.requests \o g.requests,
               !.error = IF g.raised THEN "network" ELSE st.error]

RECURSIVE ValueLoop(_, _, _, _, _)

\* enumeration = get_element_fromAPI(query_url, value.get('referent').get('@id'))
AfterReferent(mod, st, enumeration, rem, c, rels) ==
    IF st.error # "none" THEN st
    ELSE IF Truthy(enumeration) THEN Returns(st, GetStr(enumeration, "declaredName"))
    ELSE IF mod = "mbse4u" THEN ValueLoop(mod, st, rem, c, Tail(rels))
    ELSE Returns(st, PyStr("EnumRef"))

\* the interpretation of the element the value expression resolved to
Terminal(mod, st, value, rem, c, rels) ==
    IF ~Truthy(value) THEN ValueLoop(mod, st, rem, c, Tail(rels))
    ELSE IF "value" \in DOMAIN value THEN Returns(st, value.value)
    ELSE IF FieldIs(value, "type", "FeatureReferenceExpression")
    THEN IF "referent" \notin DOMAIN value THEN Raises(st, "AttributeError")
         ELSE Only({AfterReferent(mod, Fetched(st, g), g.ret, rem, c, rels) :
                       g \in {Fetch(mod, st, rem, c, value.referent)}})
    ELSE IF mod = "mbse4u" /\ FieldIs(value, "type", "EnumerationUsage")
    THEN Returns(st, GetStr(value, "name"))
    ELSE ValueLoop(mod, st, rem, c, Tail(rels))

\* value = get_element_fromAPI(query_url, value_id.get('@id')); one helper
\* follows a FeatureChainExpression to its targetFeature
AfterValue(mod, st, value, rem, c, rels) ==
    IF st.error # "none" THEN st
    ELSE IF mod # "mbse4u" THEN Terminal(mod, st, value, rem, c, rels)
    ELSE IF ~Truthy(value) THEN Raises(st, "AttributeError")
    ELSE IF FieldIs(value, "type", "FeatureChainExpression")
    THEN IF "targetFeature" \notin DOMAIN value THEN Raises(st, "AttributeError")
         ELSE Only({IF st2.error # "none" THEN st2
                    ELSE Terminal(mod, st2, st2.ret, rem, c, rels) :
                       st2 \in {Returns(Fetched(st, g), g.ret) :
                                   g \in {Fetch(mod, st, rem, c, value.targetFeature)}}})
    ELSE Terminal(mod, st, value, rem, c, rels)

\* rel = get_element_fromAPI(query_url, rel_ref['@id']); one helper prints
\* rel.get('@id') before it tests rel
AfterValueRel(mod, st, rel, rem, c, rels) ==
    IF st.error # "none" THEN st
    ELSE IF mod = "mbse4u" /\ ~Truthy(rel) THEN Raises(st, "AttributeError")
    ELSE IF Truthy(rel) /\ FieldIs(rel, "type", "FeatureValue") /\ "value" \in DOMAIN rel
    THEN Only({AfterValue(mod, Fetched(st, g), g.ret, rem, c, rels) :
                  g \in {Fetch(mod, st, rem, c, rel.value)}})
    ELSE ValueLoop(mod, st, rem, c, Tail(rels))

\* for rel_ref in attr_usage.get('ownedRelationship', []): ...; return None
ValueLoop(mod, st, rem, c, rels) ==
    IF st.error # "none" THEN st
    ELSE IF rels = <<>> THEN Returns(st, None)
    ELSE Only({AfterValueRel(mod, Fetched(st, g), g.ret, rem, c, rels) :
                  g \in {Fetch(mod, st, rem, c, Head(rels))}})

OwnedRelationship(el) ==
    IF "ownedRelationship" \in DOMAIN el THEN el.ownedRelationship ELSE <<>>

get_attribute_value_from_usage(mod, st, rem, c, attr_usage) ==
    ValueLoop(mod, st, rem, c, OwnedRelationship(attr_usage))

\* feature_kind_mapping.get(feature_kind): the owner's field of the kind,
\* "" for a kind the table does not hold (owner.get(None, []) is [])
feature_kind_mapping(feature_kind) ==
    CASE feature_kind = "AttributeUsage" -> "ownedFeature"
      [] feature_kind = "PartUsage" -> "ownedPart"
      [] feature_kind = "ItemUsage" -> "ownedItem"
      [] feature_kind = "PortUsage" -> "ownedPort"
      [] feature_kind = "ReferenceUsage" -> "ownedReference"
      [] OTHER -> ""

\* owner.get(field, [])
ListField(owner, field) == IF field \in DOMAIN owner THEN owner[field] ELSE <<>>

RECURSIVE get_elements_fromAPI(_, _, _, _, _, _)
\* for element_id in element_ids: try: elements.append(get_element_fromAPI(...))
\* except Exception: continue
get_elements_fromAPI(mod, st, rem, c, element_ids, elements) ==
    IF element_ids = <<>> THEN Returns(st, elements)
    ELSE Only({get_elements_fromAPI(mod, [Fetched(st, g) EXCEPT !.error = "none"], rem, c,
                                    Tail(element_ids),
                                    IF g.raised THEN elements ELSE Append(elements, g.ret)) :
                  g \in {Fetch(mod, st, rem, c, Head(element_ids))}})

RECURSIVE OwnedUsageLoop(_, _, _, _)
\* for usage in owned_usages: if feature_kind == usage.get('@type'):
\*     if usage.get('name') == feature_name: return usage
\* (found: whether the loop returned; ret: the usage)
OwnedUsageLoop(st, owned_usages, feature_name, feature_kind) ==
    IF owned_usages = <<>> THEN [found |-> FALSE, st |-> st]
    ELSE LET usage == Head(owned_usages)
         IN  IF ~Truthy(usage) THEN [found |-> TRUE, st |-> Raises(st, "AttributeError")]
             ELSE IF FieldIs(usage, "type", feature_kind) /\ FieldIs(usage, "name", feature_name)
             THEN [found |-> TRUE, st |-> Returns(st, usage)]
             ELSE OwnedUsageLoop(st, Tail(owned_usages), feature_name, feature_kind)

RECURSIVE InheritedLoop(_, _, _, _, _, _, _)

\* inherited_feature = get_element_fromAPI(...);
\* if feature_kind == inherited_feature.get('@type'): ...
AfterInherited(mod, st, inherited_feature, rem, c, ids, feature_name, feature_kind) ==
    IF st.error # "none" THEN st
    ELSE IF ~Truthy(inherited_feature) THEN Raises(st, "AttributeError")
    ELSE IF /\ FieldIs(inherited_feature, "type", feature_kind)
            /\ FieldIs(inherited_feature, "name", feature_name)
    THEN Returns(st, inherited_feature)
    ELSE InheritedLoop(mod, st, rem, c, Tail(ids), feature_name, feature_kind)

\* for inherited_feature_id in inherited_features_ids: ...; return None
InheritedLoop(mod, st, rem, c, ids, feature_name, feature_kind) ==
    IF st.error # "none" THEN st
    ELSE IF ids = <<>> THEN Returns(st, None)
    ELSE Only({AfterInherited(mod, Fetched(st, g), g.ret, rem, c, ids, feature_name, feature_kind) :
                  g \in {Fetch(mod, st, rem, c, Head(ids))}})

get_feature(st, rem, c, owner, feature_name, feature_kind) ==
    LET feature_ids == ListField(owner, feature_kind_mapping(feature_kind))
    IN  Only({IF direct.found THEN direct.st
              ELSE IF "inheritedFeature" \notin DOMAIN owner THEN Raises(direct.st, "TypeError")
              ELSE InheritedLoop("mbse4u", direct.st, rem, c, owner.inheritedFeature,
                                 feature_name, feature_kind) :
                 direct \in {OwnedUsageLoop(u, u.ret, feature_name, feature_kind) :
                                u \in {get_elements_fromAPI("mbse4u", st, rem, c, feature_ids, <<>>)}}})

\* feature = get_feature(...); if not feature: return None
get_feature_value(st, rem, c, owner, feature_name, feature_kind) ==
    Only({IF f.error # "none" THEN f
          ELSE IF ~Truthy(f.ret) THEN Returns(f, None)
          ELSE get_attribute_value_from_usage("mbse4u", f, rem, c, f.ret) :
             f \in {get_feature(st, rem, c, owner, feature_name, feature_kind)}})

RECURSIVE PrefetchLoop(_, _, _, _)
\* for rel_ref in element.get('ownedRelationship', []):
\*     rel = get_element_fromAPI(...); if ...: pass
PrefetchLoop(st, rem, c, rels) ==
    IF rels = <<>> THEN st
    ELSE Only({PrefetchLoop(Fetched(st, g), rem, c, Tail(rels)) :
                  g \in {Fetch("api", st, rem, c, Head(rels))}})

RECURSIVE OwnedElementLoop(_, _, _, _, _, _)
\* for owned_element in owned_elements: full_element = get_element_fromAPI(...)
\*     if full_element and full_element.get('@type') == kind: append
OwnedElementLoop(st, rem, c, owned_elements, kind, matching_elements) ==
    IF owned_elements = <<>> THEN Returns(st, matching_elements)
    ELSE Only({OwnedElementLoop(Fetched(st, g), rem, c, Tail(owned_elements), kind,
                                IF Truthy(g.ret) /\ FieldIs(g.ret, "type", kind)
                                THEN Append(matching_elements, g.ret)
                                ELSE matching_elements) :
                  g \in {Fetch("api", st, rem, c, Head(owned_elements))}})

get_owned_elements(st, rem, c, element_id, kind, elementKind) ==
    Only({IF ~Truthy(g.ret) THEN Returns(Fetched(st, g), <<>>)
          ELSE OwnedElementLoop(Fetched(st, g), rem, c, ListField(g.ret, elementKind), kind, <<>>) :
             g \in {Fetch("api", st, rem, c, element_id)}})

RECURSIVE ChildLoop(_, _, _, _, _)
\* for child in children: if child.get('name') == feature_name:
\*     return get_attribute_value_from_usage(query_url, child)
\* return "Unknown"
ChildLoop(st, rem, c, children, feature_name) ==
    IF children = <<>> THEN Returns(st, PyStr("Unknown"))
    ELSE IF FieldIs(Head(children), "name", feature_name)
    THEN get_attribute_value_from_usage("api", st, rem, c, Head(children))
    ELSE ChildLoop(st, rem, c, Tail(children), feature_name)

api_get_feature_value(st, rem, c, element, feature_name) ==
    Only({ChildLoop(children, rem, c, children.ret, feature_name) :
             children \in {get_owned_elements(pre, rem, c, element.id, "AttributeUsage", "ownedElement") :
                              pre \in {PrefetchLoop(st, rem, c, OwnedRelationship(element))}}})

GetFeatureValue(mod, st, rem, c, owner, feature_name, feature_kind) ==
    IF mod = "mbse4u"
    THEN get_feature_value(st, rem, c, owner, feature_name, feature_kind)
    ELSE api_get_feature_value(st, rem, c, owner, feature_name)

\* the elements of the repositories the feature values are read from
Attr(i, type, name, rels) == [id |-> i, type |-> type, name |-> name, ownedRelationship |-> rels]
FeatureValue(i, x) == [id |-> i, type |-> "FeatureValue", value |-> x]
ValuelessFeatureValue(i) == [id |-> i, type |-> "FeatureValue"]
FeatureTyping(i) == [id |-> i, type |-> "FeatureTyping"]
Literal(i, v) == [id |-> i, type |-> "LiteralExpression", value |-> v]
EnumerationUsage(i, name) == [id |-> i, type |-> "EnumerationUsage", name |-> name, declaredName |-> name]
FeatureReferenceExpression(i, e) == [id |-> i, type |-> "FeatureReferenceExpression", referent |-> e]
ReferenceWithValue(i, e, v) ==
    [id |-> i, type |-> "FeatureReferenceExpression", referent |-> e, value |-> v]
FeatureChainExpression(i, y) == [id |-> i, type |-> "FeatureChainExpression", targetFeature |-> y]
OperatorExpression(i) == [id |-> i, type |-> "OperatorExpression"]

LiteralValues == {PyInt(42), PyInt(0), PyBool(FALSE), PyStr("")}

\* the owner "o": its direct and its inherited features, each list absent,
\* empty or with the one feature
Owner(direct, inherited) ==
    [id |-> "o", type |-> "PartUsage", name |-> "o"]
        @@ (IF direct.has THEN [ownedFeature |-> direct.ids, ownedElement |-> direct.ids]
            ELSE EmptyDict)
        @@ (IF inherited.has THEN [inheritedFeature |-> inherited.ids] ELSE EmptyDict)

FeatureLists(i) == {[has |-> FALSE, ids |-> <<>>], [has |-> TRUE, ids |-> <<>>],
                    [has |-> TRUE, ids |-> <<i>>]}

Holding(el) == [i \in {el.id} |-> el]

\* the enumeration literal "e" a reference refers to, held by the server or not
ReferentWorlds == {EmptyDict, Holding(EnumerationUsage("e", "LOW"))}

\* what the reference "y" of a feature chain resolves to
TargetWorlds ==
    {EmptyDict} \cup {Holding(el) : el \in {Literal("y", PyInt(0)), EnumerationUsage("y", "HIGH"),
                                           FeatureChainExpression("y", "e"),
                                           OperatorExpression("y")}}
    \cup {Holding(FeatureReferenceExpression("y", "e")) @@ w : w \in ReferentWorlds}

\* what the value reference "x" of the FeatureValue resolves to
ValueWorlds ==
    {EmptyDict} \cup {Holding(Literal("x", v)) : v \in LiteralValues}
    \cup {Holding(el) : el \in {EnumerationUsage("x", "HIGH"), OperatorExpression("x"),
                               ReferenceWithValue("x", "e", PyInt(42))}}
    \cup {Holding(FeatureReferenceExpression("x", "e")) @@ w : w \in ReferentWorlds}
    \cup {Holding(FeatureChainExpression("x", "y")) @@ w : w \in TargetWorlds}

\* the relationship "v" of the direct feature
RelationshipWorlds ==
    {EmptyDict, Holding(FeatureValue("v", "x")), Holding(ValuelessFeatureValue("v")),
     Holding([id |-> "v", type |-> "FeatureTyping", value |-> "x"])}

\* the direct feature "f", with "v" alone or after a relationship "u" that
\* the server holds or not
DirectWorlds ==
    {EmptyDict}
    \cup {Holding(Attr("f", tn[1], tn[2], rels)) @@ u :
             tn \in {<<"AttributeUsage", "risk">>, <<"AttributeUsage", "other">>,
                     <<"PartUsage", "risk">>},
             rels \in {<<>>, <<"v">>}, u \in {EmptyDict}}
    \cup {Holding(Attr("f", "AttributeUsage", "risk", <<"u", "v">>)) @@ u :
             u \in {EmptyDict, Holding(FeatureTyping("u"))}}

\* the inherited feature "g", whose value is the literal 7
InheritedWorlds ==
    {EmptyDict}
    \cup {Holding(Attr("g", "AttributeUsage", name, <<"w">>))
              @@ Holding(FeatureValue("w", "z")) @@ Holding(Literal("z", PyInt(7))) :
             name \in {"risk", "other"}}

FeatureRepos ==
    {Holding(Owner(direct, inherited)) @@ f @@ g @@ v @@ x :
        direct \in FeatureLists("f"), inherited \in FeatureLists("g"),
        f \in DirectWorlds, g \in InheritedWorlds, v \in RelationshipWorlds, x \in ValueWorlds}

FeatureContext == "c1"
FeatureKinds == {"AttributeUsage"}

\* (one call from the fresh module per behaviour)
CallGetFeatureValue(c, owner, feature_name, feature_kind) ==
    /\ last = NoCall
    /\ \E r \in {GetFeatureValue(module, ValueOutcome(None, "none", ELEMENT_CACHE, lru, <<>>),
                                 remote, c, owner, feature_name, feature_kind)} :
        /\ ELEMENT_CACHE' = r.cache
        /\ lru' = r.memo
        /\ last' = [op |-> "feature", ctx |-> c, id |-> feature_name, resp |-> None,
                    ret |-> r.ret, raised |-> r.error # "none", requests |-> r.requests,
                    again |-> FALSE, kind |-> feature_kind, error |-> r.error]
        /\ UNCHANGED <<module, SYSMOD_CACHE, kind_lru, resolved, failed, remote, hier, threads>>

FeatureValueStep ==
    \E feature_kind \in FeatureKinds :
        CallGetFeatureValue(FeatureContext, remote["o"], "risk", feature_kind)

InitFeature == \E rem \in FeatureRepos : InitWith(rem)

NextFeature == FeatureValueStep

SpecFeature == InitFeature /\ [][NextFeature]_vars

----------------------------------------------------------------------------
(* get_metadata_ids_by_name *)

MaxNames == 2

MetadataDefinition(i, shortName) ==
    [id |-> i, type |-> "MetadataDefinition", declaredShortName |-> shortName]
\* a definition without a short name, and an element of another type with one
UnnamedDefinition(i) == [id |-> i, type |-> "MetadataDefinition"]
MetadataUsage(i, shortName) ==
    [id |-> i, type |-> "MetadataUsage", declaredShortName |-> shortName]

ShortNames == {"s", "t"}

MetadataWorlds(i) ==
    {EmptyDict, Holding(UnnamedDefinition(i)), Holding(MetadataUsage(i, "s"))}
    \cup {Holding(MetadataDefinition(i, n)) : n \in ShortNames}

MetadataRepos == {a @@ b : a \in MetadataWorlds("a"), b \in MetadataWorlds("b")}

RECURSIVE FirstMatch(_, _)
\* the id of the first item whose declaredShortName is shortName, else None
FirstMatch(metadata_definitions, shortName) ==
    IF metadata_definitions = <<>> THEN None
    ELSE IF FieldIs(Head(metadata_definitions), "declaredShortName", shortName)
    THEN PyStr(Head(metadata_definitions).id)
    ELSE FirstMatch(Tail(metadata_definitions), shortName)

RECURSIVE ShortNameLoop(_, _, _)
\* for shortName in metadata_shortnames: ... if matched: id_map[shortName] = matched_id
ShortNameLoop(metadata_definitions, metadata_shortnames, id_map) ==
    IF metadata_shortnames = <<>> THEN id_map
    ELSE LET shortName == Head(metadata_shortnames)
             matched_id == FirstMatch(metadata_definitions, shortName)
         IN  ShortNameLoop(metadata_definitions, Tail(metadata_shortnames),
                           IF matched_id # None THEN DictSet(id_map, shortName, matched_id)
                           ELSE id_map)

RECURSIVE ApiShortNameLoop(_, _, _)
\* for shortName in metadata_shortnames: id_map[shortName] = next((...), None)
ApiShortNameLoop(metadata_definitions, metadata_shortnames, id_map) ==
    IF metadata_shortnames = <<>> THEN id_map
    ELSE ApiShortNameLoop(metadata_definitions, Tail(metadata_shortnames),
                          DictSet(id_map, Head(metadata_shortnames),
                                  FirstMatch(metadata_definitions, Head(metadata_shortnames))))

\* (the kind query of the model answers with lists only: isinstance(..., list) holds)
get_metadata_ids_by_name(cache, memo, kmemo, c, metadata_shortnames, resp) ==
    Only({[k EXCEPT !.ret = ShortNameLoop(k.ret, metadata_shortnames, EmptyDict)] :
             k \in {get_elements_byKind_fromAPI(cache, memo, kmemo, c, "MetadataDefinition", resp)}})

api_get_metadata_ids_by_name(cache, memo, kmemo, c, metadata_shortnames, resp) ==
    Only({[k EXCEPT !.ret = ApiShortNameLoop(k.ret, metadata_shortnames, EmptyDict)] :
             k \in {api_get_elements_byKind_fromAPI(cache, memo, kmemo, c,
                                                    "MetadataDefinition", resp)}})

GetMetadataIdsByName(mod, cache, memo, kmemo, c, metadata_shortnames, resp) ==
    IF mod = "mbse4u"
    THEN get_metadata_ids_by_name(cache, memo, kmemo, c, metadata_shortnames, resp)
    ELSE api_get_metadata_ids_by_name(cache, memo, kmemo, c, metadata_shortnames, resp)

CallGetMetadataIds(c, metadata_shortnames, fail) ==
    \E r \in {GetMetadataIdsByName(module, ELEMENT_CACHE, lru, kind_lru, c, metadata_shortnames,
                                   Answer(fail, QueryAnswer(remote, "type", "MetadataDefinition")))} :
        /\ kind_lru' = r.kmemo
        /\ last' = [op |-> "metadata", ctx |-> c, id |-> "MetadataDefinition", resp |-> None,
                    ret |-> r.ret, raised |-> r.raised, requests |-> r.requests,
                    again |-> FALSE, names |-> metadata_shortnames, fail |-> fail]
        /\ UNCHANGED <<module, SYSMOD_CACHE, ELEMENT_CACHE, lru, resolved, failed, remote, hier, threads>>

MetadataContext == "c1"
\* the short names asked for: those of the definitions and one of none
RequestedNames == ShortNames \cup {"q"}

MetadataStep ==
    \E metadata_shortnames \in SeqsUpTo(RequestedNames, MaxNames), fail \in {Ok} \cup FailureResps :
        CallGetMetadataIds(MetadataContext, metadata_shortnames, fail)

InitMetadata == \E rem \in MetadataRepos : InitWith(rem)

NextMetadata == MetadataStep

SpecMetadata == InitMetadata /\ [][NextMetadata]_vars





----------------------------------------------------------------------------
(* get_metadatausage_annotatedElement_ids *)

Ref(i) == [id |-> i]

\* a MetadataUsage of the definition d annotating the elements of annotated
AnnotatingUsage(i, d, annotated) ==
    [id |-> i, type |-> "MetadataUsage", metadataDefinition |-> Ref(d),
     annotatedElement |-> [k \in DOMAIN annotated |-> Ref(annotated[k])]]
\* a MetadataUsage whose metadataDefinition is missing
UntypedUsage(i) == [id |-> i, type |-> "MetadataUsage", annotatedElement |-> <<Ref("x")>>]

DefinitionIds == {"d1", "d2"}
AnnotatedLists == {<<>>, <<"x">>, <<"y", "x">>}

UsageWorlds(i) ==
    {EmptyDict, Holding(UntypedUsage(i)), Holding(MetadataDefinition(i, "s"))}
    \cup {Holding(AnnotatingUsage(i, d, annotated)) : d \in DefinitionIds, annotated \in AnnotatedLists}

UsageRepos == {a @@ b : a \in UsageWorlds("a"), b \in UsageWorlds("b")}

\* metadata.get('@id') if isinstance(metadata, dict) else 'Unknown'
MetadataId(item) ==
    IF "metadataDefinition" \in DOMAIN item THEN item.metadataDefinition.id ELSE "Unknown"

\* what one usage of the definition adds to the list of a key: the ids of
\* its annotatedElement list, its own id when the list is empty or missing
\* (annotatedElement is a list in every element of the model)
AnnotatedIds(item) ==
    LET annotated_elements ==
            IF "annotatedElement" \in DOMAIN item THEN item.annotatedElement ELSE <<>>
    IN  IF annotated_elements # <<>>
        THEN [k \in DOMAIN annotated_elements |-> annotated_elements[k].id]
        ELSE <<item.id>>

RECURSIVE UsageLoop(_, _, _)
\* for item in metadata_usages: for key, metadefinition_id in metadefinition_dict.items(): ...
UsageLoop(metadata_usages, metadefinition_dict, results) ==
    IF metadata_usages = <<>> THEN results
    ELSE LET item == Head(metadata_usages)
         IN  UsageLoop(Tail(metadata_usages), metadefinition_dict,
                       [key \in DOMAIN results |->
                           IF MetadataId(item) = metadefinition_dict[key]
                           THEN results[key] \o AnnotatedIds(item)
                           ELSE results[key]])

\* the function is the same in both helpers; the kind query it calls is not
get_metadatausage_annotatedElement_ids(mod, cache, memo, kmemo, c, metadefinition_dict, resp) ==
    Only({[k EXCEPT !.ret = UsageLoop(k.ret, metadefinition_dict,
                                      [key \in DOMAIN metadefinition_dict |-> <<>>])] :
             k \in {GetElementsByKind(mod, cache, memo, kmemo, c, "MetadataUsage", resp)}})

CallGetAnnotatedIds(c, metadefinition_dict, fail) ==
    \E r \in {get_metadatausage_annotatedElement_ids(module, ELEMENT_CACHE, lru, kind_lru, c,
                  metadefinition_dict, Answer(fail, QueryAnswer(remote, "type", "MetadataUsage")))} :
        /\ kind_lru' = r.kmemo
        /\ last' = [op |-> "usage", ctx |-> c, id |-> "MetadataUsage", resp |-> None,
                    ret |-> r.ret, raised |-> r.raised, requests |-> r.requests,
                    again |-> FALSE, dict |-> metadefinition_dict, fail |-> fail]
        /\ UNCHANGED <<module, SYSMOD_CACHE, ELEMENT_CACHE, lru, resolved, failed, remote, hier, threads>>

\* the keys asked for and the definition ids they stand for ("d3" has no usage)
MetadataKeys == {"k1", "k2"}
MetadefinitionDicts == UNION {[keys -> DefinitionIds \cup {"d3"}] : keys \in SUBSET MetadataKeys}

UsageStep ==
    \E metadefinition_dict \in MetadefinitionDicts, fail \in {Ok} \cup FailureResps :
        CallGetAnnotatedIds(MetadataContext, metadefinition_dict, fail)

InitUsage == \E rem \in UsageRepos : InitWith(rem)

NextUsage == UsageStep

SpecUsage == InitUsage /\ [][NextUsage]_vars

----------------------------------------------------------------------------
(* get_owned_usages (mbse4u helper only) *)

\* definition = get_element_fromAPI(query_url, def_id); definition.get('name');
\* def_usages = get_elements_fromAPI(query_url, def_usages_ids); owned_usages.extend(def_usages)
AfterDefinition(st, definition, rem, c, feature_name, owned_usages) ==
    IF st.error # "none" THEN Raises(st, st.error)
    ELSE IF ~Truthy(definition) THEN Raises(st, "AttributeError")
    ELSE Only({Returns(d, owned_usages \o d.ret) :
                  d \in {get_elements_fromAPI("mbse4u", st, rem, c,
                                              ListField(definition, feature_name), <<>>)}})

\* (owner is an element of the commit: owner.get works, "if not owner" is false)
get_owned_usages(st, rem, c, owner, feature_name) ==
    Only({IF ListField(owner, "definition") = <<>> THEN own
          ELSE Only({AfterDefinition(Fetched(own, g), g.ret, rem, c, feature_name, own.ret) :
                        g \in {Fetch("mbse4u", own, rem, c, owner.definition[1])}}) :
             own \in {get_elements_fromAPI("mbse4u", st, rem, c,
                                           ListField(owner, feature_name), <<>>)}})

\* an element with the edge lists given (a list that has = FALSE is missing)
Part(i, parts, definition) ==
    [id |-> i, type |-> "PartUsage", name |-> i]
        @@ (IF parts.has THEN [ownedPart |-> parts.ids] ELSE EmptyDict)
        @@ (IF definition.has THEN [definition |-> definition.ids] ELSE EmptyDict)

Missing == [has |-> FALSE, ids |-> <<>>]
Listing(ids) == [has |-> TRUE, ids |-> ids]

\* the owner "o" with children among "a", "b" and definitions among "t", "u";
\* the definition "t" with children of its own; each of them held or not
OwnerWorlds ==
    {Holding(Part("o", parts, definition)) :
        parts \in {Missing} \cup {Listing(ids) : ids \in {<<>>, <<"a">>, <<"b", "a">>}},
        definition \in {Missing} \cup {Listing(ids) : ids \in {<<>>, <<"t">>, <<"t", "u">>}}}
DefinitionWorlds ==
    {EmptyDict} \cup {Holding(Part("t", parts, Missing)) :
                         parts \in {Missing} \cup {Listing(ids) : ids \in {<<"a">>, <<"b", "a">>}}}
ChildWorlds(i) == {EmptyDict, Holding(Part(i, Missing, Missing))}

OwnedRepos ==
    {o @@ t @@ a @@ b @@ Holding(Part("u", Listing(<<"b">>), Missing)) :
        o \in OwnerWorlds, t \in DefinitionWorlds, a \in ChildWorlds("a"), b \in ChildWorlds("b")}

OwnedContext == "c1"
Roles == {"ownedPart", "ownedFeature"}

CallGetOwnedUsages(c, owner, feature_name) ==
    \E r \in {get_owned_usages(ValueOutcome(None, "none", ELEMENT_CACHE, lru, <<>>),
                               remote, c, owner, feature_name)} :
        /\ ELEMENT_CACHE' = r.cache
        /\ lru' = r.memo
        /\ last' = [op |-> "owned", ctx |-> c, id |-> owner.id, resp |-> None,
                    ret |-> r.ret, raised |-> r.error # "none", requests |-> r.requests,
                    again |-> last.op = "owned", role |-> feature_name, error |-> r.error]
        /\ UNCHANGED <<module, SYSMOD_CACHE, kind_lru, resolved, failed, remote, hier, threads>>

OwnedUsagesStep ==
    \E feature_name \in Roles : CallGetOwnedUsages(OwnedContext, remote["o"], feature_name)

InitOwned == (\E rem \in OwnedRepos : InitWith(rem)) /\ module = "mbse4u"

NextOwned == OwnedUsagesStep

SpecOwned == InitOwned /\ [][NextOwned]_vars

----------------------------------------------------------------------------
(* get_contained_elements (mbse4u helper), get_owned_elements (api helper) *)

\* mutant of KindMatches: the type filter is dropped
KindIgnored(full_element, kind) == Truthy(full_element)

\* if full_element and full_element.get('@type') == kind
KindMatches(full_element, kind) == Truthy(full_element) /\ FieldIs(full_element, "type", kind)

RECURSIVE ContainedLoop(_, _, _, _, _, _)
\* for owned_element in owned_elements: full_element = get_element_fromAPI(...)
\* (an exception of the fetch leaves the function)
ContainedLoop(st, rem, c, owned_elements, kind, matching_elements) ==
    IF st.error # "none" THEN Raises(st, st.error)
    ELSE IF owned_elements = <<>> THEN Returns(st, matching_elements)
    ELSE Only({ContainedLoop(Fetched(st, g), rem, c, Tail(owned_elements), kind,
                             IF KindMatches(g.ret, kind) THEN Append(matching_elements, g.ret)
                             ELSE matching_elements) :
                  g \in {Fetch("mbse4u", st, rem, c, Head(owned_elements))}})

get_contained_elements(st, rem, c, element_id, kind, elementKind) ==
    Only({IF g.raised THEN Raises(Fetched(st, g), "network")
          ELSE IF ~Truthy(g.ret) THEN Returns(Fetched(st, g), <<>>)
          ELSE ContainedLoop(Fetched(st, g), rem, c, ListField(g.ret, elementKind), kind, <<>>) :
             g \in {Fetch("mbse4u", st, rem, c, element_id)}})

GetContainedElements(mod, st, rem, c, element_id, kind, elementKind) ==
    IF mod = "mbse4u" THEN get_contained_elements(st, rem, c, element_id, kind, elementKind)
    ELSE get_owned_elements(st, rem, c, element_id, kind, elementKind)

\* the container "o" and its members "a" and "b", each of a type or not held
Container(owned) ==
    [id |-> "o", type |-> "Package"]
        @@ (IF owned.has THEN [ownedElement |-> owned.ids] ELSE EmptyDict)
Member(i, type) == [id |-> i, type |-> type]

ContainerWorlds ==
    {Holding(Container(owned)) :
        owned \in {Missing} \cup {Listing(ids) : ids \in {<<>>, <<"a">>, <<"b", "a">>, <<"a", "b", "a">>}}}
MemberWorlds(i) == {EmptyDict} \cup {Holding(Member(i, type)) : type \in {"PartUsage", "PartDefinition"}}

ContainedRepos ==
    {o @@ a @@ b : o \in ContainerWorlds, a \in MemberWorlds("a"), b \in MemberWorlds("b")}

ContainedContext == "c1"
\* the container, a member, and an id the commit does not hold
ContainerIds == {"o", "a", "z"}
ElementKinds == {"ownedElement", "ownedFeature"}

CallGetContainedElements(c, element_id, kind, elementKind) ==
    \E r \in {GetContainedElements(module, ValueOutcome(None, "none", ELEMENT_CACHE, lru, <<>>),
                                   remote, c, element_id, kind, elementKind)} :
        /\ ELEMENT_CACHE' = r.cache
        /\ lru' = r.memo
        /\ last' = [op |-> "contained", ctx |-> c, id |-> element_id, resp |-> None,
                    ret |-> r.ret, raised |-> r.error # "none", requests |-> r.requests,
                    again |-> last.op = "contained", kind |-> kind, role |-> elementKind,
                    error |-> r.error]
        /\ UNCHANGED <<module, SYSMOD_CACHE, kind_lru, resolved, failed, remote, hier, threads>>

ContainedStep ==
    \E element_id \in ContainerIds, kind \in {"PartUsage", "PartDefinition"},
       elementKind \in ElementKinds :
        CallGetContainedElements(ContainedContext, element_id, kind, elementKind)

InitContained == \E rem \in ContainedRepos : InitWith(rem)

NextContained == ContainedStep

SpecContained == InitContained /\ [][NextContained]_vars

----------------------------------------------------------------------------
(* get_context_system (src/sysmod-viewer/sysmod_api_helpers.py) between calls
   of a resolver: the facade works on the mbse4u helper *)

NoFailure == [k \in RequestClasses |-> Ok]

\* the qualified name of the supertype get_context_system looks for
\* ('SYSMOD::SystemContext::systemOfInterest')
SystemOfInterest == "B"

IdsOf(elements) == [k \in DOMAIN elements |-> elements[k].id]

\* system['parts'] = ...: system is the very dict ELEMENT_CACHE and the memo
\* of lru_cache hold, so the assignment changes the cached record. (parts
\* holds the children records; a role list is read through ['@id'] only, the
\* model keeps the ids.)
SetParts(holder, key, parts) ==
    IF key \in DOMAIN holder /\ Truthy(holder[key])
    THEN [holder EXCEPT ![key] = [parts |-> IdsOf(parts)] @@ holder[key]]
    ELSE holder

\* system = get_element_fromAPI(...); system['parts'] = get_owned_usages(...); return system
AfterSystem(st, system, rem, c) ==
    IF st.error # "none" THEN Raises(st, st.error)
    ELSE IF ~Truthy(system) THEN Raises(st, "TypeError")
    ELSE Only({IF p.error # "none" THEN p
               ELSE [p EXCEPT !.ret = [parts |-> IdsOf(p.ret)] @@ system,
                              !.cache = [p.cache EXCEPT ![c] = SetParts(p.cache[c], system.id, p.ret)],
                              !.memo = SetParts(p.memo, <<c, system.id>>, p.ret)] :
                  p \in {get_owned_usages(st, rem, c, system, "ownedPart")}})

\* system_of_interest = find_elements_specializing(...); [0] or return None
AfterFind(st, f, rem, c) ==
    Only({IF f.error # "none" THEN Raises(found, f.error)
          ELSE IF f.ret = <<>> THEN Returns(found, None)
          ELSE Only({AfterSystem(Fetched(found, g), g.ret, rem, c) :
                        g \in {Fetch("mbse4u", found, rem, c, f.ret[1].id)}}) :
             found \in {[st EXCEPT !.cache = f.cache, !.memo = f.memo,
                                   !.requests = st.requests \o f.requests]}})

get_context_system(st, kmemo, rem, c, context_part) ==
    Only({IF own.error # "none" THEN own
          ELSE Only({AfterFind(own, f, rem, c) :
                        f \in {find_elements_specializing(own.cache, own.memo, kmemo, c, own.ret,
                                                          SystemOfInterest, "", rem, NoFailure)}}) :
             own \in {get_owned_usages(st, rem, c, context_part, "ownedPart")}})

\* the commit: the context "x" owning the parts "a" and "b", "a" owning "b",
\* and a specialization graph over "a", "b" and "t"
ContextPart == [id |-> "x", type |-> "PartUsage", name |-> "x", ownedPart |-> <<"a", "b">>]

ContextRepo(g) ==
    Only({[i \in DOMAIN h \cup {"x"} |->
              IF i = "x" THEN ContextPart
              ELSE IF i = "a" THEN [ownedPart |-> <<"b">>] @@ h[i]
              ELSE h[i]] : h \in {HierRepo(g)}})

ContextGraphs == {g \in FindGraphs : g["b"] = {} /\ g["t"] = {}}

ResolveContext == "c1"
ResolveOwners == {"x", "a"}
ResolveRoles == {"ownedPart", "parts"}

\* a resolver call: get_contained_elements; resolved keeps what each call
\* returned (the ids of the elements, in order) with the inputs of the call
CallResolver(c, element_id, kind, elementKind) ==
    \E r \in {get_contained_elements(ValueOutcome(None, "none", ELEMENT_CACHE, lru, <<>>),
                                     remote, c, element_id, kind, elementKind)} :
        /\ ELEMENT_CACHE' = r.cache
        /\ lru' = r.memo
        /\ last' = [op |-> "contained", ctx |-> c, id |-> element_id, resp |-> None,
                    ret |-> r.ret, raised |-> r.error # "none", requests |-> r.requests,
                    again |-> FALSE, kind |-> kind, role |-> elementKind, error |-> r.error]
        /\ resolved' = resolved \cup {[inputs |-> <<c, element_id, kind, elementKind>>,
                                       ids |-> IdsOf(r.ret)]}
        /\ UNCHANGED <<module, SYSMOD_CACHE, kind_lru, failed, remote, hier, threads>>

CallGetContextSystem(c, context_part) ==
    \E r \in {get_context_system(ValueOutcome(None, "none", ELEMENT_CACHE, lru, <<>>),
                                 kind_lru, remote, c, context_part)} :
        /\ ELEMENT_CACHE' = r.cache
        /\ lru' = r.memo
        /\ last' = [op |-> "system", ctx |-> c, id |-> context_part.id, resp |-> None,
                    ret |-> r.ret, raised |-> r.error # "none", requests |-> r.requests,
                    again |-> FALSE, error |-> r.error]
        /\ UNCHANGED <<module, SYSMOD_CACHE, kind_lru, resolved, failed, remote, hier, threads>>

ResolverStep ==
    \E element_id \in ResolveOwners, elementKind \in ResolveRoles :
        CallResolver(ResolveContext, element_id, "PartUsage", elementKind)

ContextSystemStep == CallGetContextSystem(ResolveContext, remote["x"])

InitResolve == (\E g \in ContextGraphs : InitWith(ContextRepo(g))) /\ module = "mbse4u"

NextResolve ==
    \/ ResolverStep
    \/ ContextSystemStep

SpecResolve == InitResolve /\ [][NextResolve]_vars

----------------------------------------------------------------------------
(* get_element_fromAPI run by the request threads of the server: nothing in
   the helpers synchronizes them, a thread can be suspended between any two
   statements. The steps of one call: the lookups up to session.get (the
   request is sent), the response, "if query_url not in ELEMENT_CACHE", the
   creation of the context's dict, the store and the return. *)

InFlight(t) == threads[t].pc \notin {"idle", "done"}

\* the call returns ret; lru_cache (mbse4u) memoizes what the function returned
Return(t, ret) ==
    /\ threads' = [threads EXCEPT ![t].pc = "done", ![t].ret = ret]
    /\ lru' = IF module = "mbse4u" /\ <<threads[t].ctx, threads[t].id>> \notin DOMAIN lru
              THEN LruInsert(lru, <<threads[t].ctx, threads[t].id>>, ret)
              ELSE lru

\* the call starts: memo hit, cache hit (both return at once), or session.get
BeginGet(t, c, i) ==
    /\ threads[t].pc = "idle"
    /\ \E call \in {[Idle EXCEPT !.ctx = c, !.id = i,
                                 !.with = {u \in Threads \ {t} : InFlight(u)}]} :
          IF module = "mbse4u" /\ <<c, i>> \in DOMAIN lru
          THEN /\ threads' = [threads EXCEPT ![t] = [call EXCEPT !.pc = "done", !.ret = lru[<<c, i>>]]]
               /\ UNCHANGED <<ELEMENT_CACHE, lru>>
          ELSE IF Truthy(CacheLookup(ELEMENT_CACHE, c, i))
          THEN /\ threads' = [threads EXCEPT ![t] = [call EXCEPT !.pc = "done",
                                                            !.ret = CacheLookup(ELEMENT_CACHE, c, i)]]
               /\ lru' = IF module = "mbse4u"
                         THEN LruInsert(lru, <<c, i>>, CacheLookup(ELEMENT_CACHE, c, i))
                         ELSE lru
               /\ UNCHANGED ELEMENT_CACHE
          ELSE /\ threads' = [threads EXCEPT ![t] = [call EXCEPT !.pc = "requesting", !.issued = TRUE]]
               /\ UNCHANGED <<ELEMENT_CACHE, lru>>
    /\ UNCHANGED <<module, SYSMOD_CACHE, last, resolved, failed, kind_lru, remote, hier>>

\* the response arrives: the element, or None for a non-success status
Respond(t) ==
    /\ threads[t].pc = "requesting"
    /\ \E resp \in {GetAnswer(remote, threads[t].id)} :
          IF resp.status = 200 /\ Truthy(NormalizeBody(resp))
          THEN /\ threads' = [threads EXCEPT ![t].pc = "check", ![t].element = NormalizeBody(resp)]
               /\ UNCHANGED lru
          ELSE Return(t, None)
    /\ UNCHANGED <<module, SYSMOD_CACHE, ELEMENT_CACHE, last, resolved, failed, kind_lru, remote, hier>>

\* if query_url not in ELEMENT_CACHE:
CheckContext(t) ==
    /\ threads[t].pc = "check"
    /\ threads' = [threads EXCEPT ![t].pc = IF threads[t].ctx \in DOMAIN ELEMENT_CACHE
                                            THEN "store" ELSE "create"]
    /\ UNCHANGED <<module, SYSMOD_CACHE, ELEMENT_CACHE, lru, last, resolved, failed, kind_lru, remote, hier>>

\* ELEMENT_CACHE[query_url] = {}
CreateContext(t) ==
    /\ threads[t].pc = "create"
    /\ ELEMENT_CACHE' = DictSet(ELEMENT_CACHE, threads[t].ctx, EmptyDict)
    /\ threads' = [threads EXCEPT ![t].pc = "store"]
    /\ UNCHANGED <<module, SYSMOD_CACHE, lru, last, resolved, failed, kind_lru, remote, hier>>

\* ELEMENT_CACHE[query_url][element_id] = element; return element
StoreElement(t) ==
    /\ threads[t].pc = "store"
    /\ ELEMENT_CACHE' = CacheStore(ELEMENT_CACHE, threads[t].ctx, threads[t].id, threads[t].element)
    /\ Return(t, threads[t].element)
    /\ UNCHANGED <<module, SYSMOD_CACHE, last, resolved, failed, kind_lru, remote, hier>>

ThreadContext == "c1"

BeginStep == \E t \in Threads, i \in Ids : BeginGet(t, ThreadContext, i)
RespondStep == \E t \in Threads : Respond(t)
CheckContextStep == \E t \in Threads : CheckContext(t)
CreateContextStep == \E t \in Threads : CreateContext(t)
StoreStep == \E t \in Threads : StoreElement(t)

\* the commit holds "a", and "b" or not
ThreadRepos == {Holding(El("a", 1)), Holding(El("a", 1)) @@ Holding(El("b", 1))}

InitThreads == \E rem \in ThreadRepos : InitWith(rem)

NextThreads ==
    \/ BeginStep
    \/ RespondStep
    \/ CheckContextStep
    \/ CreateContextStep
    \/ StoreStep

SpecThreads == InitThreads /\ [][NextThreads]_vars

----------------------------------------------------------------------------
(* check_specialization_hierarchy called again and again by one process, as
   find_elements_specializing does for each of its candidates; every fetch is
   answered by the server *)

\* a further top-level call, once the one before has ended
HierAgainStep ==
    /\ hier.status = "done"
    /\ \E s \in HierNodes, t \in HierNodes : hier' = StartCheck(remote, s, t)
    /\ UNCHANGED <<module, SYSMOD_CACHE, ELEMENT_CACHE, lru, last, resolved, failed, kind_lru, remote, threads>>

\* an iteration of the loop whose fetches the server answers
HierAnsweredStep ==
    /\ Running /\ Top.k >= 1 /\ Top.k <= Len(OwnedSpecialization(Top.el))
    /\ \E r \in {Iterate(hier, module, ELEMENT_CACHE, lru, remote, HierContext, Ok, Ok)} :
          /\ hier' = r.hier
          /\ ELEMENT_CACHE' = r.cache
          /\ lru' = r.memo
    /\ UNCHANGED <<module, SYSMOD_CACHE, last, resolved, failed, kind_lru, remote, threads>>

InitRecheck == InitHier

NextRecheck ==
    \/ HierCallStep
    \/ HierAgainStep
    \/ HierEnterStep
    \/ HierAnsweredStep
    \/ HierExhaustedStep

SpecRecheck == InitRecheck /\ [][NextRecheck]_vars

----------------------------------------------------------------------------
(* get_element_documentation, get_element_definition (api helper) *)

\* docs[0].get('body') or docs[0].get('name') or ""
DocText(doc) ==
    IF "body" \in DOMAIN doc /\ doc.body # "" THEN PyStr(doc.body)
    ELSE IF "name" \in DOMAIN doc /\ doc.name # "" THEN PyStr(doc.name)
    ELSE PyStr("")

\* definition_refs = element.get('definition'); the first of them, fetched;
\* element is what get_element_fromAPI returned, None included
get_element_definition(st, rem, c, element) ==
    IF ~Truthy(element) THEN Raises(st, "AttributeError")
    ELSE IF ListField(element, "definition") = <<>> THEN Returns(st, None)
    ELSE Only({Returns(Fetched(st, g), IF Truthy(g.ret) THEN g.ret ELSE None) :
                  g \in {Fetch("api", st, rem, c, element.definition[1])}})

RECURSIVE get_element_documentation(_, _, _, _, _)
\* depth: the calls of the function on the stack; the interpreter raises
\* RecursionError when the stack is used up
get_element_documentation(st, rem, c, element_id, depth) ==
    Only({IF docs.ret # <<>> THEN Returns(docs, DocText(docs.ret[1]))
          ELSE Only({IF definition.error # "none" THEN definition
                     ELSE IF ~Truthy(definition.ret) THEN Returns(definition, PyStr(""))
                     ELSE IF depth >= MaxDepth THEN Raises(definition, "recursion")
                     ELSE get_element_documentation(definition, rem, c, definition.ret.id, depth + 1) :
                        definition \in {get_element_definition(Fetched(docs, g), rem, c, g.ret) :
                                           g \in {Fetch("api", docs, rem, c, element_id)}}}) :
             docs \in {get_owned_elements(st, rem, c, element_id, "Documentation", "ownedElement")}})

\* the commit: the usage "e", the definition "d" (held or not) and the
\* Documentation "k"; "e" and "d" own "k" or not and name a definition or not
Documented(i, type, owned, definition) ==
    [id |-> i, type |-> type]
        @@ (IF owned.has THEN [ownedElement |-> owned.ids] ELSE EmptyDict)
        @@ (IF definition.has THEN [definition |-> definition.ids] ELSE EmptyDict)

DocumentationWorlds ==
    {Holding([id |-> "k", type |-> "Documentation"] @@ text) :
        text \in {[body |-> "text"], [body |-> "", name |-> "k"], EmptyDict}}
UsageDocWorlds ==
    {Holding(Documented("e", "PartUsage", owned, definition)) :
        owned \in {Missing, Listing(<<"k">>)},
        definition \in {Missing} \cup {Listing(ids) : ids \in {<<>>, <<"e">>, <<"d">>, <<"d", "e">>}}}
DefinitionDocWorlds ==
    {EmptyDict} \cup
    {Holding(Documented("d", "PartDefinition", owned, definition)) :
        owned \in {Missing, Listing(<<"k">>)},
        definition \in {Missing} \cup {Listing(ids) : ids \in {<<"e">>, <<"d">>}}}

DocRepos == {e @@ d @@ k : e \in UsageDocWorlds, d \in DefinitionDocWorlds, k \in DocumentationWorlds}

DocContext == "c1"
\* the usage, its definition, and an id the commit does not hold
DocIds == {"e", "d", "z"}

CallGetElementDocumentation(c, element_id) ==
    \E r \in {get_element_documentation(ValueOutcome(None, "none", ELEMENT_CACHE, lru, <<>>),
                                        remote, c, element_id, 1)} :
        /\ ELEMENT_CACHE' = r.cache
        /\ lru' = r.memo
        /\ last' = [op |-> "documentation", ctx |-> c, id |-> element_id, resp |-> None,
                    ret |-> r.ret, raised |-> r.error # "none", requests |-> r.requests,
                    again |-> last.op = "documentation", error |-> r.error]
        /\ UNCHANGED <<module, SYSMOD_CACHE, kind_lru, resolved, failed, remote, hier, threads>>

DocumentationStep == \E element_id \in DocIds : CallGetElementDocumentation(DocContext, element_id)

InitDocumentation == (\E rem \in DocRepos : InitWith(rem)) /\ module = "api"

NextDocumentation == DocumentationStep

SpecDocumentation == InitDocumentation /\ [][NextDocumentation]_vars

----------------------------------------------------------------------------
(* get_elements_fromAPI called for a list of ids, each fetch answered by the
   server, refused or failing *)

RECURSIVE GetElementsFromAPI(_, _, _, _, _, _)
\* for element_id in element_ids:
\*     try: elements.append(get_element_fromAPI(query_url, element_id))
\*     except Exception: continue
\* (get_element_fromAPI returns no list, so the extend branch is never taken);
\* answers: what the server answers to the fetch of each id
GetElementsFromAPI(mod, st, c, element_ids, answers, elements) ==
    IF element_ids = <<>> THEN Returns(st, elements)
    ELSE Only({GetElementsFromAPI(mod, [Fetched(st, g) EXCEPT !.error = "none"], c,
                                  Tail(element_ids), answers,
                                  IF g.raised THEN elements ELSE Append(elements, g.ret)) :
                  g \in {GetElement(mod, st.cache, st.memo, c, Head(element_ids),
                                    answers[Head(element_ids)])}})

BatchContext == "c1"
BatchIds == {"a", "b"}
\* the lists of ids asked for
BatchLists == {<<>>, <<"a">>, <<"b">>, <<"b", "a">>, <<"a", "b", "a">>}
\* the commit holds each of the ids or not
BatchRepos == {a @@ b : a \in ChildWorlds("a"), b \in ChildWorlds("b")}
\* the fetches of an id are answered as the commit says, or fail
BatchFailures == [BatchIds -> {Ok, ConnError}]

CallGetElements(c, element_ids, fails) ==
    \E r \in {GetElementsFromAPI(module, ValueOutcome(None, "none", ELEMENT_CACHE, lru, <<>>),
                                 c, element_ids,
                                 [i \in BatchIds |-> Answer(fails[i], GetAnswer(remote, i))], <<>>)} :
        /\ ELEMENT_CACHE' = r.cache
        /\ lru' = r.memo
        /\ last' = [op |-> "batch", ctx |-> c, id |-> "-", resp |-> None,
                    ret |-> r.ret, raised |-> r.error # "none", requests |-> r.requests,
                    again |-> last.op = "batch", elements |-> element_ids, fails |-> fails,
                    error |-> r.error]
        /\ UNCHANGED <<module, SYSMOD_CACHE, kind_lru, resolved, failed, remote, hier, threads>>

BatchStep ==
    \E element_ids \in BatchLists, fails \in BatchFailures :
        CallGetElements(BatchContext, element_ids, fails)

InitBatch == \E rem \in BatchRepos : InitWith(rem)

NextBatch == BatchStep

SpecBatch == InitBatch /\ [][NextBatch]_vars

----------------------------------------------------------------------------
(* load_model_cache run by a request thread (/api/cache/warmup) while other
   threads run get_element_fromAPI: its one statement on shared state is the
   assignment ELEMENT_CACHE[commit_url] = cache_entry *)

\* the bulk listing of the commit
CommitListing(rem) == ListResp(IF "b" \in DOMAIN rem THEN <<rem["a"], rem["b"]>> ELSE <<rem["a"]>>)

\* load_model_cache(ThreadContext) completes
WarmCompletesStep == CallLoadModelCache(ThreadContext, CommitListing(remote))

InitRace == InitThreads

NextRace ==
    \/ BeginStep
    \/ RespondStep
    \/ CheckContextStep
    \/ CreateContextStep
    \/ StoreStep
    \/ WarmCompletesStep

SpecRace == InitRace /\ [][NextRace]_vars

----------------------------------------------------------------------------
(* The endpoints of the viewer's server that answer from SYSMOD_CACHE
   (src/sysmod-viewer/sysmod_api_server.py) *)

\* what a request names: the commit (server url, project and commit id) and
\* the SYSMOD project element
FacadeRequests == [commit_id : {"c1", "c2"}, sysmod_project_id : {"p", "q"}]

\* what the helper of an endpoint computes for a request: the value of that
\* commit and SYSMOD project
FacadeValue(what, req) ==
    [what |-> what, commit_id |-> req.commit_id, sysmod_project_id |-> req.sysmod_project_id]

\* the members of SysmodContextKinds asked for, and a name that is none
ContextTypes == {"BROWNFIELD", "SYSTEM", "OTHER"}
SysmodContextKinds == {"BROWNFIELD", "SYSTEMIDEA", "SYSTEM", "FUNCTIONAL", "LOGICAL", "PRODUCT"}

\* the response of an endpoint: jsonify(value) with its status
Response(endpoint, req, status, value) ==
    [op |-> "facade", ctx |-> req.commit_id, id |-> req.sysmod_project_id, resp |-> None,
     ret |-> value, raised |-> FALSE, requests |-> <<>>, again |-> last.op = "facade",
     endpoint |-> endpoint, status |-> status]

Unchanged == UNCHANGED <<module, ELEMENT_CACHE, lru, resolved, failed, kind_lru, remote, hier, threads>>

\* /api/sysmod_project: the one endpoint that clears SYSMOD_CACHE, when the
\* SYSMOD project asked for is another than the one cached
api_sysmod_project(req) ==
    /\ IF /\ "PROJECT_ID" \in DOMAIN SYSMOD_CACHE
          /\ SYSMOD_CACHE["PROJECT_ID"] = PyStr(req.sysmod_project_id)
          /\ "PROJECT" \in DOMAIN SYSMOD_CACHE
       THEN /\ last' = Response("sysmod_project", req, 200, SYSMOD_CACHE["PROJECT"])
            /\ UNCHANGED SYSMOD_CACHE
       ELSE \E cleared \in {IF /\ "PROJECT_ID" \in DOMAIN SYSMOD_CACHE
                               /\ SYSMOD_CACHE["PROJECT_ID"] = PyStr(req.sysmod_project_id)
                            THEN SYSMOD_CACHE ELSE EmptyDict} :
               /\ SYSMOD_CACHE' = DictSet(DictSet(cleared, "PROJECT_ID", PyStr(req.sysmod_project_id)),
                                          "PROJECT", FacadeValue("project", req))
               /\ last' = Response("sysmod_project", req, 200, FacadeValue("project", req))
    /\ Unchanged

\* /api/problem-statement; found: get_problem_statement returned a statement
api_problem_statement(req, found) ==
    /\ IF "PROBLEMSTATEMENT" \in DOMAIN SYSMOD_CACHE
       THEN /\ last' = Response("problem-statement", req, 200, SYSMOD_CACHE["PROBLEMSTATEMENT"])
            /\ UNCHANGED SYSMOD_CACHE
       ELSE IF found
       THEN /\ SYSMOD_CACHE' = DictSet(SYSMOD_CACHE, "PROBLEMSTATEMENT", FacadeValue("problem-statement", req))
            /\ last' = Response("problem-statement", req, 200, FacadeValue("problem-statement", req))
       ELSE /\ last' = Response("problem-statement", req, 404, None)
            /\ UNCHANGED SYSMOD_CACHE
    /\ Unchanged

\* /api/sysmod-context
api_context(req, context_type) ==
    /\ IF context_type \in DOMAIN SYSMOD_CACHE
       THEN /\ last' = Response("sysmod-context", req, 200, SYSMOD_CACHE[context_type])
            /\ UNCHANGED SYSMOD_CACHE
       ELSE IF context_type \notin SysmodContextKinds
       THEN /\ last' = Response("sysmod-context", req, 400, None)
            /\ UNCHANGED SYSMOD_CACHE
       ELSE /\ SYSMOD_CACHE' = DictSet(SYSMOD_CACHE, context_type, FacadeValue(context_type, req))
            /\ last' = Response("sysmod-context", req, 200, FacadeValue(context_type, req))
    /\ Unchanged

\* /api/feature-tree-uvl; found: get_feature_tree_uvl returned a tree. (None
\* is cached as well; the view function then returns None, which the
\* framework answers with status 500.)
api_feature_tree_uvl(req, found) ==
    /\ IF "FEATURETREEUVL" \in DOMAIN SYSMOD_CACHE
       THEN /\ last' = Response("feature-tree-uvl", req, 200, SYSMOD_CACHE["FEATURETREEUVL"])
            /\ UNCHANGED SYSMOD_CACHE
       ELSE \E result \in {IF found THEN FacadeValue("feature-tree-uvl", req) ELSE None} :
               /\ SYSMOD_CACHE' = DictSet(SYSMOD_CACHE, "FEATURETREEUVL", result)
               /\ last' = Response("feature-tree-uvl", req, IF found THEN 200 ELSE 500, result)
    /\ Unchanged

ProjectStep == \E req \in FacadeRequests : api_sysmod_project(req)
ProblemStatementStep == \E req \in FacadeRequests, found \in BOOLEAN : api_problem_statement(req, found)
ContextStep == \E req \in FacadeRequests, context_type \in ContextTypes : api_context(req, context_type)
FeatureTreeStep == \E req \in FacadeRequests, found \in BOOLEAN : api_feature_tree_uvl(req, found)

InitFacade == InitWith(EmptyDict) /\ module = "mbse4u"

NextFacade ==
    \/ ProjectStep
    \/ ProblemStatementStep
    \/ ContextStep
    \/ FeatureTreeStep

SpecFacade == InitFacade /\ [][NextFacade]_vars

----------------------------------------------------------------------------
(* get_recursive_owned_elements *)

\* if child.get('@type') in ['Package', 'PartUsage', 'ItemUsage']
IsContainerType(child) == "type" \in DOMAIN child /\ child.type \in {"Package", "PartUsage", "ItemUsage"}

\* the call is at level current_depth below the start element
AtLevel(st, current_depth) ==
    [st EXCEPT !.deepest = IF current_depth > @ THEN current_depth ELSE @]

RECURSIVE WalkUnbounded(_, _, _, _, _, _, _, _)
RECURSIVE DescendLoop(_, _, _, _, _, _, _, _, _)
\* mutant of get_recursive_owned_elements: every owned element is descended
\* into, whatever its type and the depth
DescendLoop(mod, st, rem, c, children, kind, max_depth, current_depth, all_elements) ==
    IF st.error # "none" THEN Raises(st, st.error)
    ELSE IF children = <<>> THEN Returns(st, all_elements)
    ELSE IF current_depth + 1 >= MaxDepth THEN Raises(st, "recursion")
    ELSE Only({DescendLoop(mod, sub, rem, c, Tail(children), kind, max_depth, current_depth,
                           IF sub.error = "none" THEN all_elements \o sub.ret ELSE all_elements) :
                  sub \in {WalkUnbounded(mod, st, rem, c, Head(children), kind,
                                         max_depth, current_depth + 1)}})

WalkUnbounded(mod, st, rem, c, start_element_id, kind, max_depth, current_depth) ==
    Only({IF elements.error # "none" \/ start_element_id \notin DOMAIN rem THEN elements
          ELSE DescendLoop(mod, elements, rem, c, ListField(rem[start_element_id], "ownedElement"),
                           kind, max_depth, current_depth, elements.ret) :
             elements \in {GetContainedElements(mod, AtLevel(st, current_depth), rem, c,
                                                start_element_id, kind, "ownedElement")}})

RECURSIVE get_recursive_owned_elements(_, _, _, _, _, _, _, _)
RECURSIVE RawChildrenLoop(_, _, _, _, _, _, _, _, _)
\* for child in raw_children: if <container type>: all_elements.extend(<recursive call>)
\* (the interpreter raises RecursionError when the stack is used up)
RawChildrenLoop(mod, st, rem, c, raw_children, kind, max_depth, current_depth, all_elements) ==
    IF st.error # "none" THEN Raises(st, st.error)
    ELSE IF raw_children = <<>> THEN Returns(st, all_elements)
    ELSE IF ~IsContainerType(Head(raw_children))
    THEN RawChildrenLoop(mod, st, rem, c, Tail(raw_children), kind, max_depth, current_depth, all_elements)
    ELSE IF current_depth + 1 >= MaxDepth THEN Raises(st, "recursion")
    ELSE Only({RawChildrenLoop(mod, sub, rem, c, Tail(raw_children), kind, max_depth, current_depth,
                               IF sub.error = "none" THEN all_elements \o sub.ret ELSE all_elements) :
                  sub \in {get_recursive_owned_elements(mod, st, rem, c, Head(raw_children).id, kind,
                                                        max_depth, current_depth + 1)}})

\* mod: get_contained_elements (mbse4u) or get_owned_elements (api) is called
get_recursive_owned_elements(mod, st, rem, c, start_element_id, kind, max_depth, current_depth) ==
    IF current_depth > max_depth THEN Returns(st, <<>>)
    ELSE Only({IF elements.error # "none" \/ ~(current_depth < max_depth) THEN elements
               ELSE Only({RawChildrenLoop(mod, raw_children, rem, c, raw_children.ret, kind,
                                          max_depth, current_depth, elements.ret) :
                             raw_children \in {GetContainedElements(mod, elements, rem, c, start_element_id,
                                                                    "Element", "ownedElement")}}) :
                  elements \in {GetContainedElements(mod, AtLevel(st, current_depth), rem, c,
                                                     start_element_id, kind, "ownedElement")}})

\* the commit: "o", "a" and "b" owning each other or not, cycles included
Owning(i, type, owned) == [id |-> i, type |-> type, ownedElement |-> owned]

WalkRepos ==
    {Holding(Owning("o", "Package", o)) @@ Holding(Owning("a", ta, a)) @@ Holding(Owning("b", tb, b)) :
        o \in {<<>>, <<"a">>, <<"a", "b">>, <<"o">>}, a \in {<<>>, <<"o">>, <<"b">>},
        b \in {<<>>, <<"a">>}, ta \in {"Package", "PartUsage", "Element"},
        tb \in {"PartUsage", "Element"}}

WalkContext == "c1"
\* max_depth given by the caller
WalkDepths == {0, 1, 2}

CallGetRecursiveOwnedElements(c, start_element_id, kind, max_depth) ==
    \E r \in {get_recursive_owned_elements(
                  module, [deepest |-> 0] @@ ValueOutcome(None, "none", ELEMENT_CACHE, lru, <<>>),
                  remote, c, start_element_id, kind, max_depth, 0)} :
        /\ ELEMENT_CACHE' = r.cache
        /\ lru' = r.memo
        /\ last' = [op |-> "recursive", ctx |-> c, id |-> start_element_id, resp |-> None,
                    ret |-> r.ret, raised |-> r.error # "none", requests |-> r.requests,
                    again |-> last.op = "recursive", kind |-> kind, max_depth |-> max_depth,
                    deepest |-> r.deepest, error |-> r.error]
        /\ UNCHANGED <<module, SYSMOD_CACHE, kind_lru, resolved, failed, remote, hier, threads>>

RecursiveStep ==
    \E start_element_id \in {"o", "a", "z"}, kind \in {"PartUsage", "Element"}, max_depth \in WalkDepths :
        CallGetRecursiveOwnedElements(WalkContext, start_element_id, kind, max_depth)

InitWalk == \E rem \in WalkRepos : InitWith(rem)

NextWalk == RecursiveStep

SpecWalk == InitWalk /\ [][NextWalk]_vars

----------------------------------------------------------------------------
(* Claims about the element cache *)

\* the step is a call get_element_fromAPI(c, i) described by l
IsGet(l, c, i) == l.op = "get" /\ l.ctx = c /\ l.id = i

\* ELEMENT_CACHE holds an entry for (c, i)
Holds(cache, c, i) == c \in DOMAIN cache /\ i \in DOMAIN cache[c]

\* what a single fetch answered with resp has to return: the object, or the
\* first member of a list, of a success response
Served(resp) ==
    IF resp.kind = "object" THEN resp.body
    ELSE IF resp.kind = "list" /\ Len(resp.body) > 0 THEN Head(resp.body)
    ELSE None

\* C1 (as claimed): once get_element_fromAPI(C, I) has returned an element, no
\* later get_element_fromAPI(C, I) issues a remote request for (C, I).
C1_CacheMonotonicity ==
    [][\A c \in Contexts, i \in Ids :
        (<<c, i>> \in resolved /\ IsGet(last', c, i)) => last'.requests = <<>>]_vars

\* C1 (amended): once get_element_fromAPI(C, I) has returned an element, no later
\* get_element_fromAPI(C, I) issues a remote request for (C, I) as long as C's
\* entry set still holds I (only a load_model_cache(C) whose response lacks I
\* removes it).
C1_MonotonicWhileCached ==
    [][\A c \in Contexts, i \in Ids :
        (<<c, i>> \in resolved /\ Holds(ELEMENT_CACHE, c, i) /\ IsGet(last', c, i))
            => last'.requests = <<>>]_vars

\* a repeated get_element_fromAPI of a pair resolved before, answered locally
C1_Witness ==
    /\ last.op = "get" /\ last.again /\ last.requests = <<>>
    /\ Holds(ELEMENT_CACHE, last.ctx, last.id)
    /\ last.ret = ELEMENT_CACHE[last.ctx][last.id]

\* C2: whenever ELEMENT_CACHE holds an entry for (context, id), however it got
\* there, get_element_fromAPI(context, id) returns exactly that entry and issues
\* no remote request.
C2_CacheHit ==
    [][\A c \in Contexts, i \in Ids :
        (Holds(ELEMENT_CACHE, c, i) /\ IsGet(last', c, i))
            => /\ last'.ret = ELEMENT_CACHE[c][i]
               /\ ~last'.raised
               /\ last'.requests = <<>>]_vars

\* C3: when the context has an entry set without the id, get_element_fromAPI
\* issues one remote GET for the id, returns the element of a success response,
\* and afterwards the cache holds that element under (context, id) while every
\* other entry of the context is unchanged.
C3_CacheMiss ==
    [][\A c \in Contexts, i \in Ids :
        (c \in DOMAIN ELEMENT_CACHE /\ i \notin DOMAIN ELEMENT_CACHE[c] /\ IsGet(last', c, i))
            => /\ last'.requests = <<GetRequest(c, i)>>
               /\ Truthy(Served(last'.resp))
                    => /\ last'.ret = Served(last'.resp)
                       /\ ~last'.raised
                       /\ DOMAIN ELEMENT_CACHE'[c] = DOMAIN ELEMENT_CACHE[c] \cup {i}
                       /\ ELEMENT_CACHE'[c][i] = Served(last'.resp)
                       /\ \A j \in DOMAIN ELEMENT_CACHE[c] : ELEMENT_CACHE'[c][j] = ELEMENT_CACHE[c][j]]_vars

\* C4: a get_element_fromAPI(C, I) that got no element memoizes nothing: while
\* ELEMENT_CACHE has no entry for (C, I), a later get_element_fromAPI(C, I)
\* issues a fresh remote request and returns the element once the remote
\* serves it.
C4_FailedFetchNotCached ==
    [][\A c \in Contexts, i \in Ids :
        (<<c, i>> \in failed /\ ~Holds(ELEMENT_CACHE, c, i) /\ IsGet(last', c, i))
            => /\ last'.requests = <<GetRequest(c, i)>>
               /\ Truthy(Served(last'.resp)) => last'.ret = Served(last'.resp)]_vars

\* the ids a bulk listing names
ListedIds(body) == {body[k].id : k \in {n \in 1..Len(body) : HasId(body[n])}}

\* C5 (as claimed): load_model_cache never evicts: whatever the context's cache
\* holds (from earlier batches or single fetches) is still in it afterwards.
C5_WarmNeverEvicts ==
    [][last'.op = "load" =>
        \A c \in DOMAIN ELEMENT_CACHE : \A i \in DOMAIN ELEMENT_CACHE[c] :
            Holds(ELEMENT_CACHE', c, i)]_vars

\* C5 (amended): load_model_cache replaces: after a successful load of C every
\* id of the latest batch is cached, and an entry of an earlier batch or of an
\* earlier single fetch remains exactly if the latest bulk response lists its
\* id; the entries of other contexts remain.
C5_WarmReplaces ==
    [][(last'.op = "load" /\ ~last'.raised) =>
        /\ \A i \in ListedIds(last'.resp.body) : Holds(ELEMENT_CACHE', last'.ctx, i)
        /\ \A c \in DOMAIN ELEMENT_CACHE : \A i \in DOMAIN ELEMENT_CACHE[c] :
              Holds(ELEMENT_CACHE', c, i) <=> (c # last'.ctx \/ i \in ListedIds(last'.resp.body))]_vars

\* a successful load after which an element a single fetch had returned is gone
C5_Witness ==
    /\ last.op = "load" /\ ~last.raised
    /\ \E i \in Ids : <<last.ctx, i>> \in resolved /\ ~Holds(ELEMENT_CACHE, last.ctx, i)
    /\ DOMAIN ELEMENT_CACHE[last.ctx] # {}

\* C6: on a success response whose body is a list, load_model_cache(C) sets C's
\* entry set to exactly the response elements that carry an '@id', each keyed by
\* its id (the last one wins when an id repeats), and returns the number of ids
\* stored.
C6_WarmResult ==
    (last.op = "load" /\ last.resp.kind = "list") =>
        LET body == last.resp.body
            withId == {k \in 1..Len(body) : HasId(body[k])}
        IN  /\ ~last.raised
            /\ last.ctx \in DOMAIN ELEMENT_CACHE
            /\ DOMAIN ELEMENT_CACHE[last.ctx] = {body[k].id : k \in withId}
            /\ \A k \in withId :
                  (\A n \in withId : n > k => body[n].id # body[k].id)
                      => ELEMENT_CACHE[last.ctx][body[k].id] = body[k]
            /\ last.ret = Cardinality({body[k].id : k \in withId})

\* a listing that names an id twice with differing records
C6_Witness ==
    /\ last.op = "load" /\ last.resp.kind = "list" /\ Len(last.resp.body) = 2
    /\ last.resp.body[1] = El("a", 1) /\ last.resp.body[2] = El("a", 2)
    /\ last.ret = 1 /\ ELEMENT_CACHE[last.ctx]["a"] = El("a", 2)

C8_QueryFailureSurfaced ==
    (last.op \in {"byKind", "byProperty"} /\ last.resp \in FailureResps)
        => (last.raised /\ last.ret # <<>>)

GeneralsOf(rem, i) ==
    {rem[rem[i].ownedSpecialization[k]].general : k \in 1..Len(rem[i].ownedSpecialization)}

RECURSIVE ReachableFrom(_, _)
\* the nodes reachable from those of seen along specializations
ReachableFrom(rem, seen) ==
    LET more == seen \cup UNION {GeneralsOf(rem, i) : i \in seen}
    IN  IF more = seen THEN seen ELSE ReachableFrom(rem, more)

Done == hier.status = "done"

\* C10: for every specialization graph, cyclic ones included, a call of
\* check_specialization_hierarchy terminates, by a return and never by running
\* out of stack, and it returns False when the target is none of the elements
\* reachable from the start element (the api helper is given the target as a
\* name: none of the elements reachable bears it). A call that a connection
\* error of a single fetch ends has terminated without a return value.
C10_SpecializationTermination ==
    /\ [](Done => hier.error # "recursion")
    /\ []((Done /\ hier.error = "none"
            /\ \A n \in ReachableFrom(remote, {hier.start}) :
                   ~IsTarget(module, remote[n], remote, hier.target)) => hier.result = FALSE)
    /\ (Running ~> Done)

\* a call on the cycle a -> b -> a for the target t, which the cycle does not
\* reach, has returned False after visiting a and b
C10_Witness ==
    /\ Done /\ hier.error = "none" /\ hier.result = FALSE
    /\ hier.start = "a" /\ hier.target = "t"
    /\ GeneralsOf(remote, "a") = {"b"} /\ GeneralsOf(remote, "b") = {"a"}
    /\ hier.visited = {"a", "b"}
    /\ hier.expanded = <<"a", "b">>

RECURSIVE ReachableOver(_, _)
\* the ids reachable from those of seen along the pairs of edges
ReachableOver(edges, seen) ==
    LET more == seen \cup {e[2] : e \in {x \in edges : x[1] \in seen}}
    IN  IF more = seen THEN seen ELSE ReachableOver(edges, more)

\* C11: a call of check_specialization_hierarchy that returns gives True
\* exactly when the target's id is the start element's id or the id of an
\* element reachable from it along ownedSpecialization -> general over the
\* relationships and generals that resolved, and False otherwise.
C11_SpecializationIsReachability ==
    (Done /\ hier.error = "none")
        => (hier.result <=> hier.target \in ReachableOver(hier.walked, {hier.start}))

\* the elements carrying the qualified name asked for, in query order
Named(rem, name) == Selected(rem, IdOrder, "qualifiedName", name)

AllOk(fails) == \A k \in RequestClasses : fails[k] = Ok

RECURSIVE Specializers(_, _, _, _)
\* the candidates ids, in their order, of the kind asked for (if any), from
\* which sup is reached over specializations, and which are not sup itself
Specializers(rem, ids, sup, element_kind) ==
    IF ids = <<>> THEN <<>>
    ELSE LET i == Head(ids)
             rest == Specializers(rem, Tail(ids), sup, element_kind)
         IN  IF /\ element_kind = "" \/ rem[i].type = element_kind
                /\ sup \in ReachableFrom(rem, {i})
                /\ i # sup
             THEN <<rem[i]>> \o rest ELSE rest

FindAnswered == last.op = "find" /\ AllOk(last.fails) /\ Named(remote, last.id) # <<>>

\* C12: with the supertype of the name asked for in the repository and every
\* request answered, find_elements_specializing returns exactly the candidates,
\* in their original order, that pass the optional type filter, specialize the
\* supertype and have another id than the supertype; the supertype itself is
\* never in the result.
C12_FindSpecializing ==
    FindAnswered
        => /\ last.error = "none"
           /\ last.ret = Specializers(remote, last.elements, Named(remote, last.id)[1].id, last.kind)

LookupAnswered == last.fails["query"] = Ok /\ last.fails["kind"] = Ok

\* C13: when the qualified-name lookup yields several elements,
\* find_elements_specializing takes the first element of the query result as
\* the supertype: it is the one the candidates are checked against and the
\* one excluded from the result.
C13_AmbiguousSupertypeFirst ==
    (last.op = "find" /\ module = "mbse4u" /\ LookupAnswered /\ Len(Named(remote, last.id)) >= 2)
        => /\ last.super = Named(remote, last.id)[1]
           /\ AllOk(last.fails)
                  => last.ret = Specializers(remote, last.elements,
                                             Named(remote, last.id)[1].id, last.kind)

\* "b" and "t" carry the name asked for, "a" specializes "t" only, and "a" is not found
C13_Witness ==
    /\ last.op = "find" /\ module = "mbse4u" /\ AllOk(last.fails)
    /\ last.id = "B" /\ last.elements = <<"a">> /\ last.kind = ""
    /\ Len(Named(remote, "B")) = 2
    /\ GeneralsOf(remote, "a") = {"t"}
    /\ last.super.id = "b"
    /\ last.ret = <<>>

----------------------------------------------------------------------------
(* Claims about get_feature_value; the call asks for the "AttributeUsage"
   named "risk" of the owner "o" *)

FeatureCalled == last.op = "feature"

\* the owner lists i under field, and i is an AttributeUsage named as asked
Matches(rem, field, i) ==
    /\ field \in DOMAIN rem["o"]
    /\ \E k \in DOMAIN rem["o"][field] : rem["o"][field][k] = i
    /\ i \in DOMAIN rem /\ FieldIs(rem[i], "type", last.kind) /\ FieldIs(rem[i], "name", last.id)

DirectFeature(rem) == Matches(rem, "ownedFeature", "f")
InheritedFeature(rem) == Matches(rem, "inheritedFeature", "g")

\* the named feature: the direct one, else the inherited one, else "-"
NamedFeature(rem) ==
    IF DirectFeature(rem) THEN "f" ELSE IF InheritedFeature(rem) THEN "g" ELSE "-"

\* the elements the value references of the feature's FeatureValue
\* relationships resolve to
ResolvedValues(rem, feat) ==
    IF feat = "-" THEN {}
    ELSE {rem[rem[r].value] :
             r \in {q \in {rem[feat].ownedRelationship[k] : k \in DOMAIN rem[feat].ownedRelationship} :
                       /\ q \in DOMAIN rem
                       /\ FieldIs(rem[q], "type", "FeatureValue")
                       /\ "value" \in DOMAIN rem[q]
                       /\ rem[q].value \in DOMAIN rem}}

\* the terminal value read off an element
Interpret(rem, el) ==
    IF "value" \in DOMAIN el THEN el.value
    ELSE IF FieldIs(el, "type", "FeatureReferenceExpression") /\ "referent" \in DOMAIN el
            /\ el.referent \in DOMAIN rem
    THEN GetStr(rem[el.referent], "declaredName")
    ELSE IF FieldIs(el, "type", "EnumerationUsage") THEN GetStr(el, "name")
    ELSE None

IsChain(el) == FieldIs(el, "type", "FeatureChainExpression")

\* the ids an element refers to
RefsOf(el) ==
    UNION {{el[fld][k] : k \in DOMAIN el[fld]} :
              fld \in {"ownedFeature", "inheritedFeature", "ownedRelationship"} \cap DOMAIN el}
    \cup {el[fld] : fld \in {"targetFeature", "referent"} \cap DOMAIN el}
    \cup (IF FieldIs(el, "type", "FeatureValue") /\ "value" \in DOMAIN el THEN {el.value} ELSE {})

\* the server holds every element that an element it holds refers to
Resolving(rem) == \A i \in DOMAIN rem : RefsOf(rem[i]) \subseteq DOMAIN rem

\* C14: when the named feature owns a FeatureValue relationship whose value
\* reference resolves to an element carrying a literal 'value' field,
\* get_feature_value returns that field as it is: 42, 0, False and '' alike.
C14_LiteralVerbatim ==
    (FeatureCalled /\ module = "mbse4u")
        => \A x \in ResolvedValues(remote, NamedFeature(remote)) :
              ("value" \in DOMAIN x /\ ~IsChain(x))
                  => last.error = "none" /\ last.ret = x.value

\* C15: when the FeatureValue's value resolves to an EnumerationUsage,
\* get_feature_value returns the name of that element.
C15_EnumerationName ==
    FeatureCalled
        => \A x \in ResolvedValues(remote, NamedFeature(remote)) :
              (FieldIs(x, "type", "EnumerationUsage") /\ "value" \notin DOMAIN x)
                  => last.error = "none" /\ last.ret = GetStr(x, "name")

\* C16: when the FeatureValue's value resolves to a FeatureReferenceExpression
\* that has no literal 'value' field and whose referent the server holds,
\* get_feature_value returns the declared name of the referent.
C16_EnumerationByReference ==
    FeatureCalled
        => \A x \in ResolvedValues(remote, NamedFeature(remote)) :
              (/\ FieldIs(x, "type", "FeatureReferenceExpression")
               /\ "value" \notin DOMAIN x
               /\ x.referent \in DOMAIN remote)
                  => last.error = "none" /\ last.ret = GetStr(remote[x.referent], "declaredName")

\* C17: when the FeatureValue's value resolves to a FeatureChainExpression,
\* get_feature_value follows its targetFeature one hop and returns what the
\* element found there gives as a terminal value (a chain found there is not
\* followed again).
C17_FeatureChainOneHop ==
    FeatureCalled
        => \A x \in ResolvedValues(remote, NamedFeature(remote)) :
              (IsChain(x) /\ x.targetFeature \in DOMAIN remote)
                  => /\ last.error = "none"
                     /\ last.ret = Interpret(remote, remote[x.targetFeature])

\* the value of the feature feat: the terminal value of what its FeatureValue
\* resolves to, through at most one feature chain; None without one
ValueOf(rem, feat) ==
    IF ResolvedValues(rem, feat) = {} THEN None
    ELSE LET x == Only(ResolvedValues(rem, feat))
         IN  IF ~IsChain(x) THEN Interpret(rem, x)
             ELSE IF "targetFeature" \in DOMAIN x /\ x.targetFeature \in DOMAIN rem
             THEN Interpret(rem, rem[x.targetFeature])
             ELSE None

\* C18: when the owner has no direct feature of the kind and name asked for
\* but an inheritedFeature entry resolves to one, get_feature_value returns
\* the value of the inherited feature; when a direct and an inherited feature
\* both match, it returns the value of the direct one.
C18_InheritedFallback ==
    (FeatureCalled /\ InheritedFeature(remote))
        => /\ last.error = "none"
           /\ last.ret = ValueOf(remote, IF DirectFeature(remote) THEN "f" ELSE "g")

\* the cases of absence: the feature is not found, it owns no FeatureValue
\* relationship that resolves with its value, or the terminal value is not
\* interpretable
Absence(rem) == ValueOf(rem, NamedFeature(rem)) = None

\* C19: in every case of absence get_feature_value returns None and raises
\* nothing, whatever the owner element.
C19_AbsenceIsNotAnError ==
    (FeatureCalled /\ module = "mbse4u" /\ Absence(remote))
        => last.error = "none" /\ last.ret = None

----------------------------------------------------------------------------
(* Claims about get_metadata_ids_by_name *)

\* what the map returned gives for a short name: the id, or None for no id
IdOf(id_map, shortName) == IF shortName \in DOMAIN id_map THEN id_map[shortName] ELSE None

\* the MetadataDefinition elements of the repository with the short name, in
\* query order
DefinitionsNamed(rem, shortName) ==
    SelectSeq(Selected(rem, IdOrder, "type", "MetadataDefinition"),
              LAMBDA d : FieldIs(d, "declaredShortName", shortName))

\* C20: a call of get_metadata_ids_by_name that the server answers issues one
\* MetadataDefinition kind query, however many short names are asked for, and
\* maps each of them to the id of the first definition in query order with
\* that declaredShortName, and to no id when no definition has it.
C20_MetadataIdsByName ==
    (last.op = "metadata" /\ last.fail = Ok)
        => /\ last.requests = <<QueryRequest(last.ctx, "@type", "MetadataDefinition")>>
           /\ \A k \in DOMAIN last.names :
                  IdOf(last.ret, last.names[k])
                      = IF DefinitionsNamed(remote, last.names[k]) = <<>> THEN None
                        ELSE PyStr(DefinitionsNamed(remote, last.names[k])[1].id)

----------------------------------------------------------------------------
(* Claims about get_metadatausage_annotatedElement_ids *)

RECURSIVE AnnotatedBy(_, _)
\* for the MetadataUsage elements usages, in their order: the ids of the
\* annotatedElement list of each usage of definition d, the usage's own id
\* when that list is empty
AnnotatedBy(usages, d) ==
    IF usages = <<>> THEN <<>>
    ELSE (IF FieldIs(Head(usages), "metadataDefinition", Ref(d))
          THEN (IF Head(usages).annotatedElement = <<>> THEN <<Head(usages).id>>
                ELSE [k \in DOMAIN Head(usages).annotatedElement |->
                         Head(usages).annotatedElement[k].id])
          ELSE <<>>) \o AnnotatedBy(Tail(usages), d)

UsageAnswered == last.op = "usage" /\ last.fail = Ok

\* C21: a call of get_metadatausage_annotatedElement_ids that the server
\* answers returns one list per requested key; the list of key k holds, in
\* query order of the MetadataUsage elements, the annotatedElement ids of each
\* usage of k's definition, or the usage's own id when that list is empty, and
\* nothing of the usages of other definitions.
C21_AnnotatedElementIds ==
    UsageAnswered
        => /\ DOMAIN last.ret = DOMAIN last.dict
           /\ \A key \in DOMAIN last.dict :
                  last.ret[key]
                      = AnnotatedBy(Selected(remote, IdOrder, "type", "MetadataUsage"), last.dict[key])

----------------------------------------------------------------------------
(* Claims about get_owned_usages and get_contained_elements *)

RECURSIVE Children(_, _)
\* the elements of the commit the ids refer to, in the order of the ids
Children(rem, ids) ==
    IF ids = <<>> THEN <<>>
    ELSE (IF Head(ids) \in DOMAIN rem THEN <<rem[Head(ids)]>> ELSE <<>>)
             \o Children(rem, Tail(ids))

\* the children of role of the first definition of owner
DefinitionChildren(rem, owner, role) ==
    IF ListField(owner, "definition") = <<>> \/ owner.definition[1] \notin DOMAIN rem THEN <<>>
    ELSE Children(rem, ListField(rem[owner.definition[1]], role))

OwnedCalled == last.op = "owned"

\* every id of the lists of role of the owner and of its first definition,
\* and that definition, is held by the commit
OwnedResolving(rem, role) ==
    /\ \A k \in DOMAIN ListField(rem["o"], role) : ListField(rem["o"], role)[k] \in DOMAIN rem
    /\ ListField(rem["o"], "definition") # <<>>
           => /\ rem["o"].definition[1] \in DOMAIN rem
              /\ \A k \in DOMAIN ListField(rem[rem["o"].definition[1]], role) :
                     ListField(rem[rem["o"].definition[1]], role)[k] \in DOMAIN rem

\* C22: get_owned_usages(owner, role) returns the owner's own children of the
\* role in edge-list order, followed by the children of that role of the
\* owner's first definition when a definition reference is present, in
\* edge-list order; an element reached both ways is in the list twice.
C22_OwnedUsagesOrder ==
    OwnedCalled
        => /\ last.error = "none"
           /\ last.ret = Children(remote, ListField(remote["o"], last.role))
                             \o DefinitionChildren(remote, remote["o"], last.role)

ContainedCalled == last.op = "contained"

Range(list) == {list[k] : k \in DOMAIN list}

\* the role list of the element with the id, empty when the commit does not
\* hold the element or the element has no such list
RoleList(rem, i, role) == IF i \in DOMAIN rem THEN ListField(rem[i], role) ELSE <<>>

\* C23: get_contained_elements(owner id, kind, role) raises nothing and
\* returns, in edge-list order, exactly the elements of the owner's role list
\* that resolve and have the type kind, an empty list when the owner does not
\* resolve or has no such list; every request it issues is the single-element
\* GET of get_element_fromAPI, and each returned element is then in the cache.
C23_ContainedElements ==
    ContainedCalled
        => /\ last.error = "none"
           /\ last.ret = SelectSeq(Children(remote, RoleList(remote, last.id, last.role)),
                                   LAMBDA el : el.type = last.kind)
           /\ \A k \in DOMAIN last.requests :
                  \E i \in {last.id} \cup Range(RoleList(remote, last.id, last.role)) :
                      last.requests[k] = GetRequest(last.ctx, i)
           /\ \A k \in DOMAIN last.ret :
                  CacheLookup(ELEMENT_CACHE, last.ctx, last.ret[k].id) = last.ret[k]

\* a call for the container whose list names a member twice, one of another
\* type and one the commit does not hold or of the kind: the result skips some
C23_Witness ==
    /\ ContainedCalled /\ last.id = "o" /\ last.role = "ownedElement"
    /\ Len(RoleList(remote, "o", "ownedElement")) = 3
    /\ Len(last.ret) = 2
    /\ last.ret[1] = last.ret[2]

----------------------------------------------------------------------------
(* Claims about the query functions *)

IsQueryCall == last.op \in {"byKind", "byProperty", "load"}

\* C24: each call of get_elements_byKind_fromAPI, of
\* get_elements_byProperty_fromAPI and of load_model_cache issues exactly one
\* remote request, however many elements match.
C24_OneRequestPerQuery == IsQueryCall => Len(last.requests) = 1

\* the call of get_elements_byProperty_fromAPI got its query answered
PropertyAnswered == last.op = "byProperty" /\ last.resp.kind = "list"

ElementsOf(rem) == {rem[i] : i \in DOMAIN rem}

\* C25: the list an answered call of get_elements_byProperty_fromAPI returns
\* has element records as its members only, and is empty when the query
\* matches no element.
C25_PropertyResultIsElements ==
    PropertyAnswered
        => /\ \A k \in DOMAIN last.ret : last.ret[k] \in ElementsOf(remote)
           /\ last.resp.body = <<>> => last.ret = <<>>

\* C26: every call of get_elements_byKind_fromAPI issues the kind query and,
\* when the server answers it, returns the server's list, whatever
\* ELEMENT_CACHE holds; the call leaves ELEMENT_CACHE as it was.
C26_KindQueryBypassesCache ==
    [][last'.op = "byKind"
          => /\ last'.requests = <<QueryRequest(last'.ctx, "@type", last'.id)>>
             /\ last'.resp.kind = "list"
                    => last'.ret = Selected(remote, IdOrder, "type", last'.id)
             /\ ELEMENT_CACHE' = ELEMENT_CACHE]_vars

----------------------------------------------------------------------------
(* Further claims about the element cache *)

\* the step is a get_element_fromAPI that issued its request and got a
\* success response with a list body
ListServed(l) == l.op = "get" /\ l.requests # <<>> /\ l.resp.kind = "list"

\* C27: a get_element_fromAPI whose request is answered with a list returns
\* the first member of the list and holds it in the cache afterwards; for an
\* empty list it returns None and caches nothing, neither in ELEMENT_CACHE nor
\* in a memo.
C27_ListNormalization ==
    [][ListServed(last')
          => IF last'.resp.body # <<>>
             THEN /\ last'.ret = last'.resp.body[1]
                  /\ CacheLookup(ELEMENT_CACHE', last'.ctx, last'.id) = last'.resp.body[1]
             ELSE /\ last'.ret = None /\ ~last'.raised
                  /\ ELEMENT_CACHE' = ELEMENT_CACHE
                  /\ lru' = lru]_vars

\* the entry set of context c
EntriesOf(cache, c) == IF c \in DOMAIN cache THEN cache[c] ELSE EmptyDict

\* C28: the cache is partitioned by context: a get_element_fromAPI(C1, I)
\* while C1 has no entry and no memo for I issues its request also when
\* another context holds I, an answer given without a request is C1's own
\* entry or memo, and a get_element_fromAPI or load_model_cache for C1 leaves
\* the entry set of every other context unchanged.
C28_ContextPartitioning ==
    [][\A c \in Contexts :
          /\ \A i \in Ids :
                 IsGet(last', c, i)
                     => IF ~Holds(ELEMENT_CACHE, c, i) /\ <<c, i>> \notin DOMAIN lru
                        THEN last'.requests = <<GetRequest(c, i)>>
                        ELSE last'.requests = <<>>
                                 => \/ Holds(ELEMENT_CACHE, c, i) /\ last'.ret = ELEMENT_CACHE[c][i]
                                    \/ <<c, i>> \in DOMAIN lru /\ last'.ret = lru[<<c, i>>]
          /\ (last'.op \in {"get", "load"} /\ last'.ctx = c)
                 => \A d \in Contexts \ {c} :
                        EntriesOf(ELEMENT_CACHE', d) = EntriesOf(ELEMENT_CACHE, d)]_vars

\* a fetch for c1 of an id that c2 held and c1 did not: it was requested and
\* stored for c1, next to c2's entry
C28_Witness ==
    /\ IsGet(last, "c1", "a") /\ last.requests = <<GetRequest("c1", "a")>> /\ Truthy(last.ret)
    /\ Holds(ELEMENT_CACHE, "c2", "a")
    /\ Holds(ELEMENT_CACHE, "c1", "a")

----------------------------------------------------------------------------
(* Claims about the resolvers between facade calls *)

\* C29: against a commit whose content does not change, two calls of a
\* resolver with the same inputs return equal results, whatever calls run in
\* between and whatever the cache held.
C29_ResolverDeterminism ==
    \A p, q \in resolved : p.inputs = q.inputs => p.ids = q.ids

----------------------------------------------------------------------------
(* Claims about concurrent calls *)

\* the calls of t and u are for the same (context, id) and one began while
\* the other was running
Concurrent(t, u) ==
    /\ t # u
    /\ threads[t].pc # "idle" /\ threads[u].pc # "idle"
    /\ threads[t].ctx = threads[u].ctx /\ threads[t].id = threads[u].id
    /\ u \in threads[t].with

\* C30: two concurrent get_element_fromAPI calls for the same uncached
\* (context, id) issue one remote request for the id between them, and both
\* return the same element.
C30_RequestCoalescing ==
    \A t, u \in Threads :
        Concurrent(t, u)
            => /\ ~(threads[t].issued /\ threads[u].issued)
               /\ (threads[t].pc = "done" /\ threads[u].pc = "done")
                      => threads[t].ret = threads[u].ret

----------------------------------------------------------------------------
(* Further claims about check_specialization_hierarchy *)

\* the ids of the sequence s, each as often as it occurs
Occurrences(s, i) == Cardinality({k \in 1..Len(s) : s[k] = i})

\* C31: within one top-level call of check_specialization_hierarchy every
\* element id is expanded (its ownedSpecialization list walked) at most once,
\* the ids expanded are elements reachable from the start element, so there
\* are at most as many expansions as such elements; and the visited set is
\* that of the call alone: a call starts with none visited, whatever the calls
\* before it visited, so a call that returns False has expanded its start
\* element.
C31_NoRevisit ==
    hier.status # "idle" =>
        /\ \A i \in HierNodes : Occurrences(hier.expanded, i) <= 1
        /\ Range(hier.expanded) \subseteq ReachableFrom(remote, {hier.start})
        /\ Len(hier.expanded) <= Cardinality(ReachableFrom(remote, {hier.start}))
        /\ hier.visited \subseteq ReachableFrom(remote, {hier.start})
        /\ (Done /\ hier.error = "none" /\ ~hier.result) => hier.start \in Range(hier.expanded)

\* a later call on the cycle a -> b -> a with the self loop a -> a, for the
\* target t out of reach: a call before has visited t (the cache holds it),
\* this one has met a three times, expanded a and b once each and returned
\* False, and t is not among its visited
C31_Witness ==
    /\ Done /\ hier.error = "none" /\ ~hier.result
    /\ hier.start = "a" /\ hier.target = "t" /\ module = "mbse4u"
    /\ GeneralsOf(remote, "a") = {"a", "b"} /\ GeneralsOf(remote, "b") = {"a"}
    /\ hier.expanded = <<"a", "b">>
    /\ hier.visited = {"a", "b"}
    /\ HierContext \in DOMAIN ELEMENT_CACHE /\ "t" \in DOMAIN ELEMENT_CACHE[HierContext]

----------------------------------------------------------------------------
(* Further claims about the facade *)

\* C32: for every (context, id) in ELEMENT_CACHE the stored record equals the
\* record the remote returned for that id, after any sequence of resolver and
\* facade operations; no operation adds or changes a field of a cached element.
C32_CachedRecordsImmutable ==
    \A c \in DOMAIN ELEMENT_CACHE : \A i \in DOMAIN ELEMENT_CACHE[c] :
        ELEMENT_CACHE[c][i] = remote[i]

----------------------------------------------------------------------------
(* Claims about get_element_documentation *)

\* the elements of the commit on the definition chain of i: i, the first of
\* its definitions, the first of that one's, ...
RECURSIVE DefinitionChain(_, _, _)
DefinitionChain(rem, i, seen) ==
    IF i \in seen \/ i \notin DOMAIN rem THEN seen
    ELSE IF ListField(rem[i], "definition") = <<>> THEN seen \cup {i}
    ELSE DefinitionChain(rem, rem[i].definition[1], seen \cup {i})

\* the Documentation children of i
DocumentationOf(rem, i) ==
    {k \in Range(ListField(rem[i], "ownedElement")) :
        k \in DOMAIN rem /\ FieldIs(rem[k], "type", "Documentation")}

\* C33: get_element_documentation terminates for every model: no call ends by
\* running out of stack; and a call for an element of the commit on whose
\* definition chain no element has a Documentation child, a chain that leads
\* back to itself included, returns the empty documentation ''.
C33_DocumentationTerminates ==
    last.op = "documentation" =>
        /\ last.error # "recursion"
        /\ (/\ last.id \in DOMAIN remote
            /\ \A j \in DefinitionChain(remote, last.id, {}) : DocumentationOf(remote, j) = {})
              => (last.error = "none" /\ last.ret = PyStr(""))

----------------------------------------------------------------------------
(* Further claims about find_elements_specializing *)

\* C34: when no element of the commit has the qualified name asked for (and
\* the server answers every request), find_elements_specializing returns the
\* empty list for every candidate list and raises nothing.
C34_UnknownSupertypeIsEmpty ==
    (last.op = "find" /\ AllOk(last.fails) /\ Named(remote, last.id) = <<>>)
        => (last.error = "none" /\ last.ret = <<>>)

----------------------------------------------------------------------------
(* Further claims about load_model_cache *)

\* C35: when the bulk request is answered with a non-success status or with a
\* body that is not a list, load_model_cache raises an error and ELEMENT_CACHE
\* is exactly as before the call, for the warmed context and for every other.
C35_FailedWarmChangesNothing ==
    [][(last'.op = "load" /\ last'.resp.kind \in {"status", "object"})
        => (last'.raised /\ ELEMENT_CACHE' = ELEMENT_CACHE)]_vars

\* a warm of c1 answered with an object, while the cache holds a and b for c1
\* and a for c2: the call has raised
C35_Witness ==
    /\ last.op = "load" /\ last.ctx = "c1" /\ last.resp.kind = "object" /\ last.raised
    /\ DOMAIN ELEMENT_CACHE = {"c1", "c2"}
    /\ DOMAIN ELEMENT_CACHE["c1"] = {"a", "b"}
    /\ DOMAIN ELEMENT_CACHE["c2"] = {"a"}

----------------------------------------------------------------------------
(* Claims about get_elements_fromAPI *)

RECURSIVE HeldOf(_, _, _)
\* the records the cache holds for the ids of the list, in the order of the list
HeldOf(cache, c, ids) ==
    IF ids = <<>> THEN <<>>
    ELSE (IF Holds(cache, c, Head(ids)) THEN <<cache[c][Head(ids)]>> ELSE <<>>)
            \o HeldOf(cache, c, Tail(ids))

\* C36: every member of the list get_elements_fromAPI returns is an element
\* record: the call raises nothing, an id whose fetch yields no element or
\* raises contributes nothing, the other ids are fetched all the same, and
\* the result has the elements of the ids that resolved (those the cache holds
\* after the call) in the order of the requested ids.
C36_BatchYieldsOnlyElements ==
    last.op = "batch" =>
        /\ ~last.raised
        /\ \A k \in 1..Len(last.ret) : Truthy(last.ret[k])
        /\ last.ret = HeldOf(ELEMENT_CACHE, last.ctx, last.elements)

----------------------------------------------------------------------------
(* Further claims about concurrent calls *)

\* C37: once a load_model_cache for the context has completed, the entries it
\* stored stay in the context's cache, also when get_element_fromAPI misses
\* for the context run at the same time: no miss resets the entry set to the
\* empty one or to one without the warmed elements.
C37_WarmSurvivesConcurrentMisses ==
    (last.op = "load" /\ ~last.raised) =>
        \A k \in 1..Len(last.resp.body) :
            /\ Holds(ELEMENT_CACHE, last.ctx, last.resp.body[k].id)
            /\ ELEMENT_CACHE[last.ctx][last.resp.body[k].id] = last.resp.body[k]

----------------------------------------------------------------------------
(* Claims about the endpoints of the viewer's server *)

\* C38: every response of /api/problem-statement, /api/sysmod-context and
\* /api/feature-tree-uvl that carries a value carries the value of the commit
\* and of the SYSMOD project the request names: once SYSMOD_CACHE was filled
\* by a request for one commit or project, a request naming another one never
\* gets the cached value of the earlier one.
C38_FacadeAnswersMatchRequest ==
    (/\ last.op = "facade"
     /\ last.endpoint \in {"problem-statement", "sysmod-context", "feature-tree-uvl"}
     /\ last.ret # None)
        => (last.ret.commit_id = last.ctx /\ last.ret.sysmod_project_id = last.id)

----------------------------------------------------------------------------
(* Claims about get_recursive_owned_elements *)

\* C39: get_recursive_owned_elements terminates on every model, one whose
\* ownedElement edges form a cycle included: the call returns a list and does
\* not run out of stack; and it never descends more than max_depth levels
\* below the start element.
C39_BoundedContainmentWalk ==
    last.op = "recursive" =>
        /\ last.error = "none"
        /\ last.deepest <= last.max_depth

\* a call on the cycle o -> a -> o with max_depth 2 has returned
C39_Witness ==
    /\ last.op = "recursive" /\ last.id = "o" /\ last.max_depth = 2 /\ last.kind = "PartUsage"
    /\ remote["o"].ownedElement = <<"a">> /\ remote["a"].ownedElement = <<"o">>
    /\ remote["a"].type = "PartUsage"
    /\ last.error = "none" /\ last.ret = <<remote["a"]>>

====
